---- MODULE Spec2Model ----
(***************************************************************************)
(* A model of the AnkiConnect protocol client of mcp-ankiconnect:          *)
(* AnkiConnectClient.invoke (request validation, the bounded retry loop    *)
(* with exponential backoff, the unwrapping of the response envelope and   *)
(* the mapping of failures to exceptions).                                 *)
(*                                                                         *)
(* Text is modelled as a sequence of tokens, so that an f-string is a      *)
(* concatenation and "message contains X" is contiguous containment.       *)
(* A JSON value is a record [t, n, s]: its type tag, its number and its    *)
(* tokens or items.  An exception is a record [type, msg].                 *)
(***************************************************************************)
EXTENDS Integers, Sequences, FiniteSets, TLC

VARIABLES
    client,   \* the client object: its endpoint and its timeouts
    call,     \* the invoke call in progress, when calls come one at a time
    ncalls,   \* the number of calls issued one at a time so far
    calls,    \* the invoke calls of the concurrent tasks, one for each task
    tool,     \* the tool invocation in progress
    legacy,   \* the legacy server: its main coroutine and its client
    tools,    \* the tool invocations that run concurrently
    pool,     \* the clients constructed for them so far: "open" or "closed"
    held      \* the client each concurrent invocation holds (0: none)

vars == <<client, call, ncalls, calls, tool, legacy, tools, pool, held>>

\* The state of the concurrent tool invocations.
toolsVars == <<tools, pool, held>>

\* What the tools and the legacy server leave alone.
notTools == <<call, ncalls, calls, toolsVars>>

\* What the calls that come one at a time leave alone.
notSeq == <<calls, tool, legacy, toolsVars>>

\* What the concurrent tasks leave alone.
notConc == <<call, ncalls, tool, legacy, toolsVars>>

(* ------------------------------ bounds --------------------------------- *)

\* The number of invoke calls issued, one after the other, on one client.
MaxCalls == 2

\* The number of tasks that call the same client concurrently.
NTasks == 2

\* The number of tool invocations that run concurrently.
NInvocations == 2

\* The number of reviews of one call of submit_reviews.
MaxReviews == 2

(* --------------------------- configuration ----------------------------- *)

ANKI_CONNECT_URL == "http://localhost:8765"

ANKI_CONNECT_VERSION == 6

\* The retry bound of invoke.
retries == 3

(* ------------------------------- text ---------------------------------- *)

\* sub occurs in text as a contiguous run of tokens (Python's `sub in text`).
Contains(text, sub) ==
    \E i \in 0..(Len(text) - Len(sub)) :
        \A j \in 1..Len(sub) : text[i + j] = sub[j]

StartsWith(text, prefix) ==
    /\ Len(prefix) <= Len(text)
    /\ \A j \in 1..Len(prefix) : text[j] = prefix[j]

(* ---------------------------- JSON values ------------------------------ *)

JNull == [t |-> "null", n |-> 0, s |-> <<>>]

JBool(b) == [t |-> "bool", n |-> IF b THEN 1 ELSE 0, s |-> <<>>]

JInt(i) == [t |-> "int", n |-> i, s |-> <<>>]

JStr(toks) == [t |-> "str", n |-> 0, s |-> toks]

\* A list; each item is spelled as its JSON text ("true", "1", a name).
JList(items) == [t |-> "list", n |-> 0, s |-> items]

\* An object; each member is spelled as its text ("deckName: Default").
JObj(members) == [t |-> "object", n |-> 0, s |-> members]

\* Python truthiness of a decoded JSON value.
Truthy(v) ==
    CASE v.t = "null" -> FALSE
      [] v.t = "bool" -> v.n = 1
      [] v.t = "int"  -> v.n # 0
      [] OTHER        -> v.s # <<>>

\* The results the service is let to answer with.
Results ==
    { JNull, JBool(FALSE), JInt(0), JInt(12345), JList(<<>>),
      JList(<<"Default", "Test">>) }

\* The values the service is let to put in the error field.
Errors ==
    { JNull, JStr(<<>>), JStr(<<"deck not found">>), JInt(5) }

(* ----------------------------- exceptions ------------------------------ *)

Exc(type, msg) == [type |-> type, msg |-> msg]

NoExc == Exc("None", <<>>)

\* The classes an exception of the given type is an instance of.
Bases(type) ==
    CASE type = "TimeoutException" ->
             {"TimeoutException", "TransportError", "RequestError", "HTTPError", "Exception"}
      [] type = "ConnectError" ->
             {"ConnectError", "NetworkError", "TransportError", "RequestError", "HTTPError", "Exception"}
      [] type = "HTTPStatusError" -> {"HTTPStatusError", "HTTPError", "Exception"}
      [] type = "JSONDecodeError" -> {"JSONDecodeError", "ValueError", "Exception"}
      [] type = "ValidationError" -> {"ValidationError", "ValueError", "Exception"}
      [] type = "RecursionError" -> {"RecursionError", "RuntimeError", "Exception"}
      [] type = "UnboundLocalError" -> {"UnboundLocalError", "NameError", "Exception"}
      [] type = "CancelledError" -> {"CancelledError", "BaseException"}
      [] type = "None" -> {}
      [] OTHER -> {type, "Exception"}

IsInstance(e, cls) == cls \in Bases(e.type)

(* ------------------------- outcomes of a call -------------------------- *)

NoOutcome == [kind |-> "none", value |-> JNull, exc |-> NoExc, cause |-> NoExc]

Return(v) == [kind |-> "return", value |-> v, exc |-> NoExc, cause |-> NoExc]

\* raise e  (no explicit cause)
Raise(e) == [kind |-> "raise", value |-> JNull, exc |-> e, cause |-> NoExc]

\* raise e from c
RaiseFrom(e, c) == [kind |-> "raise", value |-> JNull, exc |-> e, cause |-> c]

(* --------------------------- the transport ----------------------------- *)

TIMEOUTS == [connect |-> 5, read |-> 120, write |-> 30]

\* The endpoints a client is let to be constructed with.
Urls == { ANKI_CONNECT_URL, "http://127.0.0.1:9000" }

\* The body of an HTTP response: text that is no JSON ("garbage"), JSON nested
\* too deeply for the decoder ("deep"), a JSON array, or a JSON object with or
\* without the keys result and error.
ObjectBody(hasResult, result, hasError, error) ==
    [kind |-> "object", hasResult |-> hasResult, result |-> result,
     hasError |-> hasError, error |-> error]

PlainBody(kind) ==
    [kind |-> kind, hasResult |-> FALSE, result |-> JNull,
     hasError |-> FALSE, error |-> JNull]

Bodies ==
    { PlainBody(k) : k \in {"garbage", "deep", "array"} }
    \cup { ObjectBody(TRUE, r, TRUE, e) : r \in Results, e \in Errors }
    \cup { ObjectBody(TRUE, r, FALSE, JNull) : r \in Results }
    \cup { ObjectBody(FALSE, JNull, TRUE, e) : e \in Errors }
    \cup { ObjectBody(FALSE, JNull, FALSE, JNull) }

Statuses == { 200, 404, 500 }

Responses == [status : Statuses, body : Bodies]

NoResponse == [status |-> 0, body |-> PlainBody("none")]

\* The timeout-class exceptions client.post is let to raise.
TimeoutErrors ==
    { Exc("TimeoutException", <<"Connection timed out">>),
      Exc("TimeoutException", <<"Read timed out">>) }

\* The other exceptions client.post is let to raise.
TransportErrors ==
    { Exc("ConnectError", <<"All connection attempts failed">>),
      Exc("HTTPError", <<"Connection failed">>) }

\* Response.raise_for_status: the exception it raises, NoExc when it returns.
raise_for_status(response) ==
    IF response.status >= 400
    THEN Exc("HTTPStatusError", <<"Error ", ToString(response.status)>>)
    ELSE NoExc

\* Response.json: the exception the decoder raises, NoExc when it returns.
json_error(response) ==
    CASE response.body.kind = "garbage" -> Exc("JSONDecodeError", <<"Expecting value">>)
      [] response.body.kind = "deep" ->
             Exc("RecursionError", <<"maximum recursion depth exceeded">>)
      [] OTHER -> NoExc

(* ------------------------- the protocol client ------------------------- *)

AnkiAction ==
    { "deckNames", "findCards", "cardsInfo", "answerCards", "modelNames",
      "modelFieldNames", "addNote", "findNotes", "notesInfo" }

\* The action names a caller is let to pass: the known ones and an unknown one.
ActionNames == AnkiAction \cup { "sync" }

\* AnkiConnectResponse.model_validate: result is required and of any type,
\* error is an optional string that defaults to None.
ResponseValid(body) ==
    /\ body.kind = "object"
    /\ body.hasResult
    /\ body.hasError => body.error.t \in {"null", "str"}

\* Mutant of AnkiConnectResponse: a falsy result is replaced by None.
AnkiConnectResponse_FalsyToNull(body) ==
    [result |-> IF Truthy(body.result) THEN body.result ELSE JNull,
     error |-> IF body.hasError THEN body.error ELSE JNull]

AnkiConnectResponse(body) ==
    [result |-> body.result,
     error |-> IF body.hasError THEN body.error ELSE JNull]

\* Mutant of RequestValid: action is declared as a plain string.
RequestValid_AnyString(action) == TRUE

\* AnkiConnectRequest(action=..., version=..., params=...): action must be a
\* member of AnkiAction.
RequestValid(action) == action \in AnkiAction

\* Mutant of AnkiConnectRequest: the caller's keywords are spread over the
\* envelope, so that a keyword named version replaces the envelope's version.
AnkiConnectRequest_Spread(action, version, params) ==
    [action |-> action,
     version |-> IF \E kv \in params : kv[1] = "version"
                 THEN (CHOOSE kv \in params : kv[1] = "version")[2].n
                 ELSE version,
     params |-> { kv \in params : kv[1] # "version" }]

\* params is the set of the <<name, value>> pairs of the caller's keywords.
AnkiConnectRequest(action, version, params) ==
    [action |-> action, version |-> version, params |-> params]

NoRequest == [action |-> "none", version |-> 0, params |-> {}]

\* The keywords a caller of invoke is let to pass.
ParamSets ==
    { {}, {<<"query", JStr(<<"is:due">>)>>}, {<<"version", JInt(5)>>} }

(* ---------------------- the convenience operations --------------------- *)

Operations ==
    { "cards_info", "deck_names", "find_cards", "answer_cards",
      "model_field_names", "model_names", "find_notes", "add_note",
      "notes_info" }

\* The action each operation passes to invoke.
OpAction(op) ==
    CASE op = "cards_info" -> "cardsInfo"
      [] op = "deck_names" -> "deckNames"
      [] op = "find_cards" -> "findCards"
      [] op = "answer_cards" -> "answerCards"
      [] op = "model_field_names" -> "modelFieldNames"
      [] op = "model_names" -> "modelNames"
      [] op = "find_notes" -> "findNotes"
      [] op = "add_note" -> "addNote"
      [] op = "notes_info" -> "notesInfo"

\* The keywords each operation passes to invoke, for its argument arg.
OpParams(op, arg) ==
    CASE op = "cards_info" -> {<<"cards", arg>>}
      [] op = "deck_names" -> {}
      [] op = "find_cards" -> {<<"query", arg>>}
      [] op = "answer_cards" -> {<<"answers", arg>>}
      [] op = "model_field_names" -> {<<"modelName", arg>>}
      [] op = "model_names" -> {}
      [] op = "find_notes" -> {<<"query", arg>>}
      [] op = "add_note" -> {<<"note", arg>>}
      [] op = "notes_info" -> {<<"notes", arg>>}

\* The context each operation puts before the message of a failure.
OpPrefix(op) ==
    CASE op = "cards_info" -> <<"Error getting cards info: ">>
      [] op = "deck_names" -> <<"Error getting deck names: ">>
      [] op = "find_cards" -> <<"Error finding cards: ">>
      [] op = "answer_cards" -> <<"Error answering cards: ">>
      [] op = "model_field_names" -> <<"Error getting model field names: ">>
      [] op = "model_names" -> <<"Error getting model names: ">>
      [] op = "find_notes" -> <<"Error finding notes: ">>
      [] op = "add_note" -> <<"Error adding note: ">>
      [] op = "notes_info" -> <<"Error getting notes info: ">>

\* The arguments a caller of each operation is let to pass (JNull: none).
OpArgs(op) ==
    CASE op \in {"deck_names", "model_names"} -> { JNull }
      [] op \in {"find_cards", "find_notes"} ->
             { JStr(<<"is:due">>), JStr(<<"deck:Default">>) }
      [] op \in {"cards_info", "notes_info"} ->
             { JList(<<"1", "2", "3">>), JList(<<>>) }
      [] op = "answer_cards" -> { JList(<<"{cardId: 1, ease: 3}">>) }
      [] op = "model_field_names" -> { JStr(<<"Basic">>) }
      [] op = "add_note" -> { JObj(<<"deckName: Default", "modelName: Basic">>) }

\* deck_names: isinstance(e, RuntimeError) and "Unable to connect to Anki" in str(e)
IsConnectionFailure(e) ==
    /\ e.type = "RuntimeError"
    /\ Contains(e.msg, <<"Unable to connect to Anki">>)

\* Mutant of Wrapped: the new error is not chained to the original one.
Wrapped_NoCause(op, e) == Raise(Exc("RuntimeError", OpPrefix(op) \o e.msg))

\* Mutant of Wrapped: the new error names the operation only.
Wrapped_Generic(op, e) == RaiseFrom(Exc("RuntimeError", OpPrefix(op)), e)

\* except Exception as e: raise RuntimeError(f"<context>{str(e)}") from e
Wrapped(op, e) == RaiseFrom(Exc("RuntimeError", OpPrefix(op) \o e.msg), e)

\* Mutant of Convenience: deck_names has no clause of its own and wraps the
\* connection failure as the other operations do.
Convenience_NoSpecialCase(op, out) ==
    IF op = "invoke" \/ out.kind # "raise" \/ ~IsInstance(out.exc, "Exception")
    THEN out
    ELSE Wrapped(op, out.exc)

\* What the caller of invoke makes of its outcome: invoke's own caller gets
\* it as it is, a convenience operation returns the result as it is and wraps
\* a failure; deck_names re-raises the connection failure as it is.
Convenience(op, out) ==
    IF op = "invoke" \/ out.kind # "raise" \/ ~IsInstance(out.exc, "Exception")
    THEN out
    ELSE IF op = "deck_names" /\ IsConnectionFailure(out.exc)
    THEN out
    ELSE Wrapped(op, out.exc)

\* The state of one invoke call: where it is (pc), its loop counter (attempt),
\* and what an observer of the transport and of the clock has seen of it:
\* the envelopes posted (sent), what each post yielded (hist: the exception
\* raised, NoExc for a response), the backoff sleeps, the response, whether
\* the response body was decoded (parsed), and how the call ended (outcome).
\* op is the operation the caller called ("invoke" or a convenience operation),
\* arg its argument, action and params what invoke was called with, request the
\* envelope built, and result what the caller of op gets.
IdleCall ==
    [pc |-> "idle", op |-> "none", arg |-> JNull, action |-> "none",
     params |-> {}, request |-> NoRequest, attempt |-> 0, sent |-> <<>>,
     hist |-> <<>>, sleeps |-> <<>>, resp |-> NoResponse, parsed |-> FALSE,
     outcome |-> NoOutcome, result |-> NoOutcome]

\* invoke ends with out, and the operation that called it ends in turn.
Finished(c, out) ==
    [c EXCEPT !.pc = "done", !.outcome = out, !.result = Convenience(c.op, out)]

\* Mutant of Retryable: the except clause names the wider TransportError.
Retryable_AnyTransport(e) == IsInstance(e, "TransportError")

\* except httpx.TimeoutException
Retryable(e) == IsInstance(e, "TimeoutException")

\* Mutant of LastAttempt: the last attempt is not told from the others, so
\* that the third timeout is followed by a sleep like the first two.
LastAttempt_Never(attempt) == FALSE

\* Mutant of LastAttempt: the comparison is off by one.
LastAttempt_OffByOne(attempt) == attempt = retries

\* if attempt == retries - 1
LastAttempt(attempt) == attempt = retries - 1

\* Mutant of Backoff: the exponent counts the attempts from 1.
Backoff_OneIndexed(attempt) == 2 ^ (attempt + 1)

\* asyncio.sleep(2 ** attempt)
Backoff(attempt) == 2 ^ attempt

\* The error raised when the retries are exhausted.  The f-string interpolates
\* retries only: neither the endpoint nor the timeout e is part of the text.
ConnectionFailure(base_url, e) ==
    Exc("RuntimeError",
        << "Unable to connect to Anki", " after ", ToString(retries), " attempts",
           ". Please ensure Anki is running and the AnkiConnect plugin is installed." >>)

\* The body of the second try block: raise_for_status, json, model_validate,
\* the check of the error field, return.  parsed tells whether json was called.
TryBody(response) ==
    LET status_error == raise_for_status(response)
        decode_error == json_error(response)
        anki_response == AnkiConnectResponse(response.body)
    IN  IF status_error # NoExc
        THEN [out |-> Raise(status_error), parsed |-> FALSE]
        ELSE IF decode_error # NoExc
        THEN [out |-> Raise(decode_error), parsed |-> TRUE]
        ELSE IF ~ResponseValid(response.body)
        THEN [out |-> Raise(Exc("ValidationError",
                                <<"validation error for AnkiConnectResponse">>)),
              parsed |-> TRUE]
        ELSE IF Truthy(anki_response.error)
        THEN [out |-> Raise(Exc("ValueError",
                                <<"AnkiConnect error: ">> \o anki_response.error.s)),
              parsed |-> TRUE]
        ELSE [out |-> Return(anki_response.result), parsed |-> TRUE]

\* Mutant of Handlers: the except httpx.HTTPError clause is missing.
Handlers_NoHTTPErrorClause(out) ==
    IF out.kind # "raise" THEN out
    ELSE IF IsInstance(out.exc, "ValueError")
    THEN out
    ELSE IF IsInstance(out.exc, "Exception")
    THEN RaiseFrom(Exc("RuntimeError",
                       <<"Unexpected error during AnkiConnect operation: ">> \o out.exc.msg),
                   out.exc)
    ELSE out

\* The except clauses of the second try block, in their order.
Handlers(out) ==
    IF out.kind # "raise" THEN out
    ELSE IF IsInstance(out.exc, "HTTPError")
    THEN RaiseFrom(Exc("RuntimeError",
                       <<"Failed to communicate with AnkiConnect: ">> \o out.exc.msg),
                   out.exc)
    ELSE IF IsInstance(out.exc, "ValueError")
    THEN out
    ELSE IF IsInstance(out.exc, "Exception")
    THEN RaiseFrom(Exc("RuntimeError",
                       <<"Unexpected error during AnkiConnect operation: ">> \o out.exc.msg),
                   out.exc)
    ELSE out

\* invoke, called by op, up to the first post: the request is built and
\* validated.
Begin(op, arg, action, params) ==
    LET c == [IdleCall EXCEPT !.op = op, !.arg = arg, !.action = action,
                              !.params = params]
    IN  IF RequestValid(action)
        THEN [c EXCEPT !.pc = "post",
                       !.request = AnkiConnectRequest(action, ANKI_CONNECT_VERSION,
                                                      params)]
        ELSE Finished(c, Raise(Exc("ValidationError",
                                   <<"validation error for AnkiConnectRequest">>)))

\* invoke(action, **params), called directly.
InvokeBegin(action, params) == Begin("invoke", JNull, action, params)

\* Mutant of OpBegin: notes_info passes its ids under the keyword of cards_info.
OpBegin_WrongKeyword(op, arg) ==
    Begin(op, arg, OpAction(op),
          IF op = "notes_info" THEN {<<"cards", arg>>} ELSE OpParams(op, arg))

\* A convenience operation, called with arg, calls invoke.
OpBegin(op, arg) == Begin(op, arg, OpAction(op), OpParams(op, arg))

\* Mutant of Posted: the post goes to the configured default endpoint, whatever
\* endpoint the client was constructed with.
Posted_DefaultUrl(c, base_url) ==
    [c EXCEPT !.sent = Append(@, [url |-> ANKI_CONNECT_URL, json |-> c.request])]

\* One more post is issued: the envelope goes to the client's endpoint.
Posted(c, base_url) ==
    [c EXCEPT !.sent = Append(@, [url |-> base_url, json |-> c.request])]

\* client.post raised e.
PostRaised(c, base_url, e) ==
    LET p == [Posted(c, base_url) EXCEPT !.hist = Append(@, e)]
    IN  IF Retryable(e)
        THEN IF LastAttempt(c.attempt)
             THEN Finished(p, Raise(ConnectionFailure(base_url, e)))
             ELSE [p EXCEPT !.pc = "sleep", !.sleeps = Append(@, Backoff(c.attempt))]
        ELSE Finished(p, Raise(e))

\* The loop is left with a response (break) or with none (range exhausted), and
\* the second try block runs.
AfterLoop(c) ==
    IF c.resp = NoResponse
    THEN Finished(c, Handlers(Raise(Exc("UnboundLocalError",
                                        <<"local variable 'response' referenced before assignment">>))))
    ELSE LET t == TryBody(c.resp)
         IN  Finished([c EXCEPT !.parsed = t.parsed], Handlers(t.out))

\* Mutant of PostReturned: a response with an error status is retried like a
\* timeout instead of leaving the loop.
PostReturned_RetryOnStatus(c, base_url, response) ==
    LET p == [Posted(c, base_url) EXCEPT !.hist = Append(@, NoExc)]
    IN  IF response.status >= 400 /\ ~LastAttempt(c.attempt)
        THEN [p EXCEPT !.pc = "sleep", !.sleeps = Append(@, Backoff(c.attempt))]
        ELSE AfterLoop([p EXCEPT !.resp = response])

\* client.post returned a response.
PostReturned(c, base_url, response) ==
    AfterLoop([Posted(c, base_url) EXCEPT !.hist = Append(@, NoExc),
                                          !.resp = response])

\* The backoff sleep is over: continue with the next iteration of the loop.
Woken(c) ==
    IF c.attempt + 1 < retries
    THEN [c EXCEPT !.pc = "post", !.attempt = @ + 1]
    ELSE AfterLoop([c EXCEPT !.attempt = @ + 1])

(* ------------------------- the tools of the server --------------------- *)

EXCLUDE_STRINGS == { "AnKing" }

MAX_FUTURE_DAYS == 5

\* RATING_TO_EASE.get(rating): 0 stands for None.
RATING_TO_EASE(rating) ==
    CASE rating = "wrong" -> 1
      [] rating = "hard" -> 2
      [] rating = "good" -> 3
      [] rating = "easy" -> 4
      [] OTHER -> 0

\* str.lower, on the ratings a caller is let to pass.
Lower(rating) ==
    CASE rating = "Good" -> "good"
      [] rating = "EASY" -> "easy"
      [] OTHER -> rating

ToolNames ==
    { "num_cards_due_today", "list_decks_and_notes", "get_examples",
      "fetch_due_cards_for_review", "submit_reviews", "add_note" }

\* The arguments of a tool call.  Each tool reads its own: deck (JNull: none),
\* limit, today_only, sample and seed (what random.sample picks), reviews
\* (each a card_id and a rating), and the deck, model, fields and tags of
\* a note.
NoInput ==
    [deck |-> JNull, limit |-> 5, today_only |-> TRUE, sample |-> "random",
     seed |-> 1, reviews |-> <<>>, deckName |-> "", modelName |-> "",
     fields |-> <<>>, tags |-> JNull]

\* The state of one tool invocation: where it is (pc), the tool and its
\* arguments, the client it acquired through get_anki_client (anki: "none",
\* "open" or "closed"; closes counts the calls of close), the client
\* operation it is suspended in (call), the operations it has called so far
\* with their arguments (ops) and what each gave (got), the exceptions
\* get_anki_client logged, and what the caller of the tool gets (out).
IdleTool ==
    [pc |-> "idle", name |-> "none", input |-> NoInput, anki |-> "none",
     closes |-> 0, call |-> IdleCall, ops |-> <<>>, got |-> <<>>,
     logged |-> <<>>, out |-> NoOutcome]

\* A tool returns a text.
Text(toks) == Return(JStr(toks))

\* len(v): whether v has a length, and the length.
Sized(v) == v.t \in {"list", "str", "object"}

\* raise TypeError: the value a client operation returned is not of the shape
\* the tool goes on to use.
NotSized(v) ==
    Raise(Exc("TypeError", <<"object of type '", v.t, "' has no len()">>))

NotIterable(v) ==
    Raise(Exc("TypeError", <<"'", v.t, "' object is not iterable">>))

\* The truth value of an item of a list, spelled as JSON text.
ItemTruthy(item) == item \notin {"false", "null", "0", "\"\"", "[]", "{}"}

\* Mutant of Take: the last n items of the sequence (s[-n:]).
Take_Last(s, n) == SubSeq(s, IF n < Len(s) THEN Len(s) - n + 1 ELSE 1, Len(s))

\* The first n items of a sequence (s[:n]).
Take(s, n) == SubSeq(s, 1, IF n < Len(s) THEN n ELSE Len(s))

\* any(ex.lower() in name.lower() for ex in EXCLUDE_STRINGS), on the names
\* the service is let to answer with, none of which contains an excluded
\* string without being one.
Excluded(name) == name \in EXCLUDE_STRINGS

\* Mutant of ExitClient: the client is closed in the except clause, so that it
\* is closed when the block is left by an Exception only.
ExitClient_CloseInExcept(t, out) ==
    IF out.kind = "raise" /\ IsInstance(out.exc, "Exception")
    THEN [t EXCEPT !.anki = "closed", !.closes = @ + 1,
                   !.logged = Append(@, out.exc)]
    ELSE t

\* get_anki_client, after the yield: the block is left with out.  An Exception
\* is logged and re-raised; the finally clause closes the client.
ExitClient(t, out) ==
    [t EXCEPT !.anki = "closed", !.closes = @ + 1,
              !.logged = IF out.kind = "raise" /\ IsInstance(out.exc, "Exception")
                         THEN Append(@, out.exc) ELSE @]

\* The text the decorator returns for an AnkiConnectionError.
GuidanceText(e) ==
    << "SYSTEM_ERROR:", " Cannot connect to Anki. ",
       "Please inform the user that they need to start their Anki application ",
       "and ensure the AnkiConnect add-on is installed and enabled before proceeding. ",
       "Details: " >> \o e.msg

\* The text the decorator returns for a ValueError.
ApiErrorText(e) ==
    << "SYSTEM_ERROR:", " An error occurred communicating with Anki: " >>
    \o e.msg \o << ". ", "Please inform the user about the error." >>

\* The text the decorator returns for any other Exception.
UnexpectedText(name, e) ==
    << "SYSTEM_ERROR:", " An unexpected error occurred while executing the Anki tool '",
       name, "'. ", "Details: " >> \o e.msg

\* Mutant of handle_anki_connection_error: the last except clause is missing.
handle_anki_connection_error_NoCatchAll(name, out) ==
    IF out.kind # "raise" THEN out
    ELSE IF IsInstance(out.exc, "AnkiConnectionError")
    THEN Text(GuidanceText(out.exc))
    ELSE IF IsInstance(out.exc, "ValueError")
    THEN Text(ApiErrorText(out.exc))
    ELSE out

\* Mutant of handle_anki_connection_error: the wrapped error is answered with
\* a fixed text that leaves its message out.
handle_anki_connection_error_NoDetails(name, out) ==
    IF out.kind # "raise" THEN out
    ELSE IF IsInstance(out.exc, "AnkiConnectionError")
    THEN Text(GuidanceText(out.exc))
    ELSE IF IsInstance(out.exc, "ValueError")
    THEN Text(ApiErrorText(out.exc))
    ELSE IF IsInstance(out.exc, "Exception")
    THEN Text(UnexpectedText(name, Exc("Exception", <<>>)))
    ELSE out

\* The decorator of the tools: the except clauses of wrapper, in their order.
handle_anki_connection_error(name, out) ==
    IF out.kind # "raise" THEN out
    ELSE IF IsInstance(out.exc, "AnkiConnectionError")
    THEN Text(GuidanceText(out.exc))
    ELSE IF IsInstance(out.exc, "ValueError")
    THEN Text(ApiErrorText(out.exc))
    ELSE IF IsInstance(out.exc, "Exception")
    THEN Text(UnexpectedText(name, out.exc))
    ELSE out

\* What the body of a tool does next, given what the operations it has called
\* gave: it calls a client operation, or it ends (returns or raises).
CallOp(op, arg) == [kind |-> "call", op |-> op, arg |-> arg, out |-> NoOutcome]

End(out) == [kind |-> "end", op |-> "none", arg |-> JNull, out |-> out]

\* sep.join(parts), each part a run of tokens.
RECURSIVE Join(_, _)
Join(parts, sep) ==
    IF parts = <<>> THEN <<>>
    ELSE IF Len(parts) = 1 THEN parts[1]
    ELSE parts[1] \o sep \o Join(Tail(parts), sep)

\* The tokens of a text put together as one string.
RECURSIVE Flat(_)
Flat(toks) == IF toks = <<>> THEN "" ELSE Head(toks) \o Flat(Tail(toks))

\* str(v), as an f-string shows a value.
StrOf(v) ==
    CASE v.t = "null" -> "None"
      [] v.t = "bool" -> IF v.n = 1 THEN "True" ELSE "False"
      [] v.t = "int" -> ToString(v.n)
      [] v.t = "str" -> Flat(v.s)
      [] OTHER -> "[" \o Flat(Join([i \in 1..Len(v.s) |-> <<v.s[i]>>], <<", ">>)) \o "]"

\* deck_msg of num_cards_due_today.
DeckMsg(deck, otherwise) ==
    IF Truthy(deck) THEN <<" in deck '">> \o deck.s \o <<"'">> ELSE otherwise

\* _find_due_card_ids: the query it builds for a deck and a day.
DueQuery(deck, day) ==
    JStr(<<"is:due -is:suspended ">>
         \o (IF day = 0 THEN <<"prop:due=0">> ELSE <<"prop:due<=", ToString(day)>>)
         \o (IF Truthy(deck) THEN <<" \"deck:">> \o deck.s \o <<"\"">> ELSE <<>>))

\* _find_due_card_ids, after find_cards gave r: the f-string of its log line
\* takes len(card_ids).
FoundDue(r) ==
    IF r.kind = "raise" THEN r
    ELSE IF ~Sized(r.value) THEN NotSized(r.value)
    ELSE r

num_cards_due_today(input, got) ==
    IF got = <<>> THEN CallOp("find_cards", DueQuery(input.deck, 0))
    ELSE LET card_ids == FoundDue(got[1])
         IN  IF card_ids.kind = "raise" THEN End(card_ids)
             ELSE End(Text(<<"There are ", ToString(Len(card_ids.value.s)),
                             " cards due today">>
                           \o DeckMsg(input.deck, <<" across all decks">>)
                           \o <<".">>))

\* The names of a list that contain no excluded string.
Filtered(names) == SelectSeq(names, LAMBDA name : ~Excluded(name))

\* The text list_decks_and_notes returns for the decks and the note types
\* (each a name and its fields) it has gathered.
DecksAndNotesText(decks, note_types) ==
    (IF decks # <<>>
     THEN <<"You have ", ToString(Len(decks)), " filtered decks: ">>
          \o Join([i \in 1..Len(decks) |-> <<decks[i]>>], <<", ">>)
     ELSE <<"No filtered decks found.">>)
    \o <<"\n\n">>
    \o (IF note_types # <<>>
        THEN <<"Your filtered note types and their fields are:\n">>
             \o Join([i \in 1..Len(note_types) |->
                        <<"- ", note_types[i].name, ": { ">>
                        \o Join([j \in 1..Len(note_types[i].fields) |->
                                   <<"\"", note_types[i].fields[j], "\": \"string\"">>],
                                <<", ">>)
                        \o <<" }">>],
                     <<"\n">>)
        ELSE <<"No filtered note types found.">>)

list_decks_and_notes(input, got) ==
    IF got = <<>> THEN CallOp("deck_names", JNull)
    ELSE IF got[1].kind = "raise" THEN End(got[1])
    ELSE IF got[1].value.t # "list" THEN End(NotIterable(got[1].value))
    ELSE IF Len(got) = 1 THEN CallOp("model_names", JNull)
    ELSE IF got[2].kind = "raise" THEN End(got[2])
    ELSE IF got[2].value.t # "list" THEN End(NotIterable(got[2].value))
    ELSE LET models == Filtered(got[2].value.s)
             k == Len(got) - 2
             \* try: fields = await anki.model_field_names(model)
             \* except Exception: the model is skipped
             kept == SelectSeq([i \in 1..k |-> [name |-> models[i], fields |-> got[2 + i]]],
                               LAMBDA nt : nt.fields.kind = "return")
             note_types == [i \in 1..Len(kept) |->
                              [name |-> kept[i].name, fields |-> kept[i].fields.value]]
         IN  IF k < Len(models)
             THEN CallOp("model_field_names", JStr(<<models[k + 1]>>))
             ELSE IF \E i \in 1..Len(note_types) : note_types[i].fields.t # "list"
             THEN End(NotIterable(JNull))
             ELSE End(Text(DecksAndNotesText(
                               Filtered(got[1].value.s),
                               [i \in 1..Len(note_types) |->
                                  [name |-> note_types[i].name,
                                   fields |-> note_types[i].fields.s]])))

\* The criterion get_examples adds to its query for a sampling technique.
SampleQuery(sample) ==
    CASE sample = "recent" -> <<" ", "added:7", " ", "sort:added rev">>
      [] sample = "most_reviewed" -> <<" ", "prop:reps>10", " ", "sort:reps rev">>
      [] sample = "best_performance" ->
             <<" ", "prop:lapses<3 is:review", " ", "sort:lapses">>
      [] sample = "mature" -> <<" ", "prop:ivl>=21 -is:learn", " ", "sort:ivl rev">>
      [] sample = "young" -> <<" ", "is:review prop:ivl<=7 -is:learn", " ", "sort:ivl">>
      [] OTHER -> <<" ", "is:review">>

ExamplesQuery(deck, sample) ==
    JStr(<<"-is:suspended", " ", "-note:*AnKing*">>
         \o (IF Truthy(deck) THEN <<" ", "\"deck:">> \o deck.s \o <<"\"">> ELSE <<>>)
         \o SampleQuery(sample))

\* random.sample(ids, n), for n < len(ids): n items of ids, the ones the
\* seed picks.
Sample(ids, n, seed) == [i \in 1..n |-> ids[((seed + i - 2) % Len(ids)) + 1]]

NoExamplesText(input, where) ==
    <<"No example notes found ", where, " (Sample: ", input.sample, ", Deck: ">>
    \o (IF Truthy(input.deck) THEN input.deck.s ELSE <<"Any">>) \o <<").">>

get_examples(input, got) ==
    IF got = <<>> THEN CallOp("find_notes", ExamplesQuery(input.deck, input.sample))
    ELSE IF got[1].kind = "raise" THEN End(got[1])
    ELSE LET note_ids == got[1].value
             sampled_note_ids ==
                 IF input.sample = "random" /\ Len(note_ids.s) > input.limit
                 THEN Sample(note_ids.s, input.limit, input.seed)
                 ELSE Take(note_ids.s, input.limit)
         IN  IF ~Truthy(note_ids)
             THEN End(Text(NoExamplesText(input, "matching criteria")))
             ELSE IF ~Sized(note_ids)
             THEN End(IF input.sample = "random" THEN NotSized(note_ids)
                      ELSE Raise(Exc("TypeError",
                                     <<"'", note_ids.t, "' object is not subscriptable">>)))
             ELSE IF sampled_note_ids = <<>>
             THEN End(Text(NoExamplesText(input, "after sampling/limiting")))
             ELSE IF Len(got) = 1 THEN CallOp("notes_info", JList(sampled_note_ids))
             ELSE IF got[2].kind = "raise" THEN End(got[2])
             ELSE IF got[2].value.t # "list" THEN End(NotIterable(got[2].value))
             ELSE End(Text(<<"flashcard_guidelines",
                             "\n\nHere are some examples based on your criteria:\n">>
                           \o got[2].value.s))

fetch_due_cards_for_review(input, got) ==
    LET max_day_to_check == IF input.today_only THEN 0 ELSE MAX_FUTURE_DAYS IN
    IF got = <<>> THEN CallOp("find_cards", DueQuery(input.deck, max_day_to_check))
    ELSE LET card_ids == FoundDue(got[1])
             card_ids_to_fetch == Take(card_ids.value.s, input.limit)
         IN  IF card_ids.kind = "raise" THEN End(card_ids)
             ELSE IF card_ids_to_fetch = <<>>
             THEN End(Text(<<"No cards found due ">>
                           \o (IF input.today_only THEN <<"today">>
                               ELSE <<"within the next ", ToString(max_day_to_check),
                                      " days">>)
                           \o DeckMsg(input.deck, <<>>) \o <<".">>))
             ELSE IF Len(got) = 1 THEN CallOp("cards_info", JList(card_ids_to_fetch))
             ELSE IF got[2].kind = "raise" THEN End(got[2])
             ELSE IF got[2].value.t # "list" THEN End(NotIterable(got[2].value))
             ELSE End(Text(<<"claude_review_instructions">>
                           \o Join([i \in 1..Len(got[2].value.s) |->
                                      <<"<card>", got[2].value.s[i], "</card>">>],
                                   <<"\n\n">>)))

\* isinstance(card_id, int): bool is a subclass of int.
IsInt(v) == v.t \in {"int", "bool"}

\* The validation loop of submit_reviews: the answers to submit and the
\* validation errors, a line each.
ValidReview(review) ==
    IsInt(review.card_id) /\ RATING_TO_EASE(Lower(review.rating)) # 0

ValidationError(review) ==
    IF ~IsInt(review.card_id)
    THEN <<"Invalid card_id '", StrOf(review.card_id), "' in review: ",
           "{card_id: " \o StrOf(review.card_id) \o ", rating: " \o review.rating \o "}",
           ". Must be an integer.">>
    ELSE <<"Invalid rating '", Lower(review.rating), "' for card_id ",
           StrOf(review.card_id), ". Must be one of: ",
           "['wrong', 'hard', 'good', 'easy']", ".">>

Answer(review) ==
    "{cardId: " \o StrOf(review.card_id) \o ", ease: "
    \o ToString(RATING_TO_EASE(Lower(review.rating))) \o "}"

answers_to_submit(reviews) ==
    LET valid == SelectSeq(reviews, ValidReview)
    IN  [i \in 1..Len(valid) |-> Answer(valid[i])]

validation_errors(reviews) ==
    LET invalid == SelectSeq(reviews, LAMBDA review : ~ValidReview(review))
    IN  [i \in 1..Len(invalid) |-> ValidationError(invalid[i])]

\* Mutant of submit_reviews_checks: the invalid reviews are left out and the
\* valid ones of the batch are submitted.
submit_reviews_checks_SkipInvalid(input) ==
    IF input.reviews = <<>> THEN Text(<<"No reviews provided to submit.">>)
    ELSE IF answers_to_submit(input.reviews) = <<>>
    THEN Text(<<"No valid reviews found to submit after validation.">>)
    ELSE NoOutcome

\* submit_reviews before the async with block: the text it returns without
\* acquiring a client, NoOutcome when it goes on to the block.
submit_reviews_checks(input) ==
    IF input.reviews = <<>> THEN Text(<<"No reviews provided to submit.">>)
    ELSE IF validation_errors(input.reviews) # <<>>
    THEN Text(<<"SYSTEM_ERROR:", " Could not submit reviews due to validation errors:",
                "\n">>
              \o Join(validation_errors(input.reviews), <<"\n">>))
    ELSE IF answers_to_submit(input.reviews) = <<>>
    THEN Text(<<"No valid reviews found to submit after validation.">>)
    ELSE NoOutcome

\* Mutant of Success: a review the service gave no result for counts as a
\* success.
Success_DefaultTrue(results, i) ==
    IF i <= Len(results) THEN ItemTruthy(results[i]) ELSE TRUE

\* success = results[i] if i < len(results) else False  (i counted from 1 here)
Success(results, i) ==
    IF i <= Len(results) THEN ItemTruthy(results[i]) ELSE FALSE

\* The line of the report for review i.
ReviewLine(review, success) ==
    IF success
    THEN <<"Card ", StrOf(review.card_id), ": Marked as '", review.rating,
           "' successfully.">>
    ELSE <<"Card ", StrOf(review.card_id), ": Failed to mark as '", review.rating, "'.">>

ReviewReport(reviews, results) ==
    LET success_count == Cardinality({ i \in 1..Len(reviews) : Success(results, i) })
        fail_count == Cardinality({ i \in 1..Len(reviews) : ~Success(results, i) })
    IN  <<"Review submission summary: ", ToString(success_count), " successful, ",
          ToString(fail_count), " failed.">>
        \o <<"\n">>
        \o Join([i \in 1..Len(reviews) |-> ReviewLine(reviews[i], Success(results, i))],
                <<"\n">>)

\* submit_reviews inside the async with block.
submit_reviews(input, got) ==
    IF got = <<>> THEN CallOp("answer_cards", JList(answers_to_submit(input.reviews)))
    ELSE IF got[1].kind = "raise" THEN End(got[1])
    ELSE IF ~Sized(got[1].value) THEN End(NotSized(got[1].value))
    ELSE End(Text(ReviewReport(input.reviews, got[1].value.s)))

\* The field processing of add_note, on the tokens of a field: the math tags
\* become MathJax delimiters (the fields a caller is let to pass hold no
\* backticks).
ProcessField(value) ==
    [i \in 1..Len(value) |->
        CASE value[i] = "<math>" -> "\\("
          [] value[i] = "</math>" -> "\\)"
          [] OTHER -> value[i]]

note_payload(input) ==
    JObj(<<"deckName: " \o input.deckName, "modelName: " \o input.modelName>>
         \o [i \in 1..Len(input.fields) |->
               "fields." \o input.fields[i].name \o ": "
               \o Flat(ProcessField(input.fields[i].value))]
         \o <<"tags: " \o (IF input.tags = JNull THEN "[]" ELSE StrOf(input.tags)),
              "options: {allowDuplicate: false, duplicateScope: deck}">>)

\* Mutant of NoteAdded: the result is compared with None.
NoteAdded_IsNotNone(note_id) == note_id # JNull

\* if note_id:
NoteAdded(note_id) == Truthy(note_id)

add_note(input, got) ==
    IF got = <<>> THEN CallOp("add_note", note_payload(input))
    ELSE IF got[1].kind = "raise" THEN End(got[1])
    ELSE IF NoteAdded(got[1].value)
    THEN End(Text(<<"Successfully created note with ID: ", StrOf(got[1].value),
                    " in deck '", input.deckName, "'.">>))
    ELSE End(Text(<<"SYSTEM_ERROR:", " ", "Failed to add note", " to deck '",
                    input.deckName,
                    "'. AnkiConnect did not return a note ID or indicated failure.">>))

\* The body of each tool inside its async with block.
Body(name, input, got) ==
    CASE name = "num_cards_due_today" -> num_cards_due_today(input, got)
      [] name = "list_decks_and_notes" -> list_decks_and_notes(input, got)
      [] name = "get_examples" -> get_examples(input, got)
      [] name = "fetch_due_cards_for_review" -> fetch_due_cards_for_review(input, got)
      [] name = "submit_reviews" -> submit_reviews(input, got)
      [] name = "add_note" -> add_note(input, got)

\* What a tool does before it acquires a client: NoOutcome when it goes on.
Checks(name, input) ==
    IF name = "submit_reviews" THEN submit_reviews_checks(input) ELSE NoOutcome

\* The tool ends with out, which goes through the decorator.
ToolFinished(t, out) ==
    [t EXCEPT !.pc = "done", !.out = handle_anki_connection_error(t.name, out)]

\* Inside the block, the body runs on to its next client operation, where it
\* is suspended in the first post, or to its end, where the block is left.
Advance(t) ==
    LET step == Body(t.name, t.input, t.got)
    IN  IF step.kind = "call"
        THEN [t EXCEPT !.pc = "await",
                       !.ops = Append(@, [op |-> step.op, arg |-> step.arg]),
                       !.call = OpBegin(step.op, step.arg)]
        ELSE ToolFinished(ExitClient(t, step.out), step.out)

\* A tool is called: it returns before the block, or get_anki_client
\* constructs a client and the body starts.
ToolBegin(name, input) ==
    LET t == [IdleTool EXCEPT !.name = name, !.input = input]
    IN  IF Checks(name, input) # NoOutcome
        THEN ToolFinished(t, Checks(name, input))
        ELSE Advance([t EXCEPT !.anki = "open"])

\* The client operation the tool is suspended in has got on to c: when it is
\* over, the tool has its result or its exception and runs on.
Resumed(t, c) ==
    IF c.pc = "done"
    THEN Advance([t EXCEPT !.got = Append(@, c.result), !.call = c])
    ELSE [t EXCEPT !.call = c]

\* The suspended tool is cancelled: CancelledError is raised at the await.  It
\* is no Exception, so that neither invoke, nor the operation, nor the body
\* catches it: the block is left with it.
Cancelled(t) ==
    LET out == Raise(Exc("CancelledError", <<>>))
    IN  ToolFinished(ExitClient(t, out), out)

\* The legacy server: main constructs AnkiServer, whose __init__ constructs the
\* client, awaits run, and calls cleanup in its finally clause.
NewServer == [pc |-> "new", anki |-> "none", closes |-> 0, out |-> NoOutcome]

LegacyStarted(s) == [s EXCEPT !.pc = "run", !.anki = "open"]

\* Mutant of cleanup: close is not awaited, and the client stays open.
cleanup_NotAwaited(s) == s

\* AnkiServer.cleanup
cleanup(s) == [s EXCEPT !.anki = "closed", !.closes = @ + 1]

\* run is over with out: the finally clause of main runs, and out goes on.
LegacyEnded(s, out) == [cleanup(s) EXCEPT !.pc = "done", !.out = out]

\* The handlers of the legacy server, which all use the one client of the
\* server (self.anki) and run without a decorator.
LegacyNames == { "get_cards_due", "submit_reviews" }

\* days_to_review of get_due_cards (0 if today_only else 5); num_cards_due_today
\* passes 0.
DaysToReview(today_only) == IF today_only THEN 0 ELSE 5

\* deck in decks, for a list of names.
InDecks(deck, decks) == \E i \in 1..Len(decks) : decks[i] = Flat(deck.s)

\* The query of get_cards_due.
LegacyDueQuery(deck, day) ==
    JStr(<<"is:due ">>
         \o (IF day > 0 THEN <<"prop:due<", ToString(day + 1)>> ELSE <<"prop:due=0">>)
         \o (IF Truthy(deck) THEN <<" deck:">> \o deck.s ELSE <<>>))

\* Mutant of get_cards_due: the deck is not looked up in the deck list.
get_cards_due_NoDeckCheck(deck, day, got) ==
    IF got = <<>> THEN CallOp("deck_names", JNull)
    ELSE IF got[1].kind = "raise" THEN End(got[1])
    ELSE IF Len(got) = 1 THEN CallOp("find_cards", LegacyDueQuery(deck, day))
    ELSE End(got[2])

\* AnkiServer.get_cards_due
get_cards_due(deck, day, got) ==
    IF got = <<>> THEN CallOp("deck_names", JNull)
    ELSE IF got[1].kind = "raise" THEN End(got[1])
    ELSE IF Truthy(deck) /\ got[1].value.t # "list"
    THEN End(Raise(Exc("TypeError", <<"argument of type '", got[1].value.t,
                                      "' is not iterable">>)))
    ELSE IF Truthy(deck) /\ ~InDecks(deck, got[1].value.s)
    THEN End(Raise(Exc("ValueError", <<"Deck '">> \o deck.s \o <<"' does not exist">>)))
    ELSE IF Len(got) = 1 THEN CallOp("find_cards", LegacyDueQuery(deck, day))
    ELSE End(got[2])

\* CardReview.model_validate: card_id is an int and rating one of the values
\* of Rating, as written.
LegacyValid(review) ==
    review.card_id.t = "int" /\ review.rating \in {"wrong", "hard", "good", "easy"}

LegacyValidationError(review) ==
    Exc("ValidationError",
        <<"1 validation error for CardReview", "\n",
          IF review.card_id.t # "int" THEN "card_id" ELSE "rating">>)

\* The answers of the legacy submit_reviews, one for each review.
LegacyAnswers(reviews) ==
    [i \in 1..Len(reviews) |->
        "{cardId: " \o StrOf(reviews[i].card_id) \o ", ease: "
        \o ToString(RATING_TO_EASE(reviews[i].rating)) \o "}"]

\* The message of the legacy submit_reviews for one review.
LegacyReviewLine(review, success) ==
    <<"Card ", StrOf(review.card_id),
      IF success THEN " successfully" ELSE " failed to be",
      " marked as ", review.rating>>

\* zip(input_model.reviews, results): as many pairs as the shorter has items.
Zip(reviews, results) ==
    [i \in 1..(IF Len(reviews) < Len(results) THEN Len(reviews) ELSE Len(results)) |->
        [review |-> reviews[i], success |-> results[i]]]

\* The except clause of the legacy submit_reviews.
FailedToSubmit(e) ==
    RaiseFrom(Exc("RuntimeError", <<"Failed to submit reviews: ">> \o e.msg), e)

\* AnkiServer.submit_reviews, called with arguments that hold reviews.
legacy_submit_reviews(input, got) ==
    LET reviews == input.reviews
        invalid == SelectSeq(reviews, LAMBDA review : ~LegacyValid(review))
    IN  IF invalid # <<>> THEN End(FailedToSubmit(LegacyValidationError(invalid[1])))
        ELSE IF got = <<>> THEN CallOp("answer_cards", JList(LegacyAnswers(reviews)))
        ELSE IF got[1].kind = "raise" THEN End(FailedToSubmit(got[1].exc))
        ELSE IF got[1].value.t # "list"
        THEN End(FailedToSubmit(NotIterable(got[1].value).exc))
        ELSE LET pairs == Zip(reviews, got[1].value.s)
             IN  End(Text(Join([i \in 1..Len(pairs) |->
                                   LegacyReviewLine(pairs[i].review,
                                                    ItemTruthy(pairs[i].success))],
                               <<"\n">>)))

LegacyBody(name, input, got) ==
    CASE name = "get_cards_due" ->
             get_cards_due(input.deck, DaysToReview(input.today_only), got)
      [] name = "submit_reviews" -> legacy_submit_reviews(input, got)

\* A handler of the legacy server runs on to its next client operation, where
\* it is suspended in the first post, or to its end.
LegacyAdvance(t) ==
    LET step == LegacyBody(t.name, t.input, t.got)
    IN  IF step.kind = "call"
        THEN [t EXCEPT !.pc = "await",
                       !.ops = Append(@, [op |-> step.op, arg |-> step.arg]),
                       !.call = OpBegin(step.op, step.arg)]
        ELSE [t EXCEPT !.pc = "done", !.out = step.out]

LegacyBegin(name, input) ==
    LegacyAdvance([IdleTool EXCEPT !.name = name, !.input = input])

\* The client operation the handler is suspended in has got on to c.
LegacyResumed(t, c) ==
    IF c.pc = "done"
    THEN LegacyAdvance([t EXCEPT !.got = Append(@, c.result), !.call = c])
    ELSE [t EXCEPT !.call = c]

(* ------------------------------ actions -------------------------------- *)

TypeOK ==
    /\ call.pc \in {"idle", "post", "sleep", "done"}
    /\ ncalls \in 0..MaxCalls

Tasks == 1..NTasks

Invocations == 1..NInvocations

Init ==
    /\ client \in [base_url : Urls, timeout : {TIMEOUTS}]
    /\ call = IdleCall
    /\ ncalls = 0
    /\ calls = [t \in Tasks |-> IdleCall]
    /\ tool = IdleTool
    /\ legacy = NewServer
    /\ tools = [i \in Invocations |-> IdleTool]
    /\ pool = <<>>
    /\ held = [i \in Invocations |-> 0]

\* A caller calls invoke(action, **params).
Invoke(action, params) ==
    /\ call.pc = "idle"
    /\ ncalls < MaxCalls
    /\ call' = InvokeBegin(action, params)
    /\ ncalls' = ncalls + 1
    /\ UNCHANGED <<client, notSeq>>

\* A caller calls a convenience operation.
Call(op, arg) ==
    /\ call.pc = "idle"
    /\ ncalls < MaxCalls
    /\ call' = OpBegin(op, arg)
    /\ ncalls' = ncalls + 1
    /\ UNCHANGED <<client, notSeq>>

\* The post of the current attempt fails with a timeout-class exception.
PostTimeout(e) ==
    /\ call.pc = "post"
    /\ call' = PostRaised(call, client.base_url, e)
    /\ UNCHANGED <<client, ncalls, notSeq>>

\* The post of the current attempt fails with another exception.
PostError(e) ==
    /\ call.pc = "post"
    /\ call' = PostRaised(call, client.base_url, e)
    /\ UNCHANGED <<client, ncalls, notSeq>>

\* The post of the current attempt yields a response.
PostResponse(response) ==
    /\ call.pc = "post"
    /\ call' = PostReturned(call, client.base_url, response)
    /\ UNCHANGED <<client, ncalls, notSeq>>

\* The backoff sleep ends.
WakeUp ==
    /\ call.pc = "sleep"
    /\ call' = Woken(call)
    /\ UNCHANGED <<client, ncalls, notSeq>>

\* The caller has the result or the exception: the call is over.
Leave ==
    /\ call.pc = "done"
    /\ call' = IdleCall
    /\ UNCHANGED <<client, ncalls, notSeq>>

Next ==
    \/ \E action \in ActionNames, params \in ParamSets : Invoke(action, params)
    \/ \E op \in Operations : \E arg \in OpArgs(op) : Call(op, arg)
    \/ \E e \in TimeoutErrors : PostTimeout(e)
    \/ \E e \in TransportErrors : PostError(e)
    \/ \E response \in Responses : PostResponse(response)
    \/ WakeUp
    \/ Leave

Spec == Init /\ [][Next]_vars

(* --------------------- calls whose posts all complete ------------------ *)

\* The responses the service is let to give when termination is at stake.
LiveResponses ==
    { [status |-> 200,
       body |-> ObjectBody(TRUE, JList(<<"Default", "Test">>), TRUE, JNull)],
      [status |-> 200,
       body |-> ObjectBody(TRUE, JNull, TRUE, JStr(<<"deck not found">>))],
      [status |-> 200, body |-> PlainBody("garbage")],
      [status |-> 500, body |-> PlainBody("garbage")] }

\* The post in flight completes: it raises or it yields a response.
PostCompletes ==
    \/ \E e \in TimeoutErrors : PostTimeout(e)
    \/ \E e \in TransportErrors : PostError(e)
    \/ \E response \in LiveResponses : PostResponse(response)

NextLive ==
    \/ \E action \in ActionNames, params \in ParamSets : Invoke(action, params)
    \/ PostCompletes
    \/ WakeUp
    \/ Leave

\* Every post in flight completes, and every asyncio.sleep ends.
SpecLive ==
    Init /\ [][NextLive]_vars /\ WF_vars(PostCompletes) /\ WF_vars(WakeUp)

(* ------------------- concurrent calls on one client -------------------- *)

\* The operations, timeouts, errors and responses of the concurrent tasks.
ConcOperations == { "deck_names", "find_cards" }

ConcTimeouts == { Exc("TimeoutException", <<"Connection timed out">>) }

ConcErrors == { Exc("ConnectError", <<"All connection attempts failed">>) }

ConcResponses ==
    { [status |-> 200,
       body |-> ObjectBody(TRUE, JList(<<"Default", "Test">>), TRUE, JNull)],
      [status |-> 200,
       body |-> ObjectBody(TRUE, JNull, TRUE, JStr(<<"deck not found">>))],
      [status |-> 500, body |-> PlainBody("garbage")] }

\* Mutant of Update: the loop counter is a field of the client, which the
\* calls in progress share.
Update_SharedAttempt(cs, t, c) ==
    [u \in DOMAIN cs |->
        IF u = t THEN c ELSE [cs[u] EXCEPT !.attempt = c.attempt]]

\* The call of task t goes on to c: request, attempt and response are locals
\* of invoke, so the calls of the other tasks stay as they are.
Update(cs, t, c) == [cs EXCEPT ![t] = c]

\* Task t calls a convenience operation of the shared client.
ConcCall(t, op, arg) ==
    /\ calls[t].pc = "idle"
    /\ calls' = Update(calls, t, OpBegin(op, arg))
    /\ UNCHANGED <<client, notConc>>

\* The post of task t fails with a timeout-class exception.
ConcPostTimeout(t, e) ==
    /\ calls[t].pc = "post"
    /\ calls' = Update(calls, t, PostRaised(calls[t], client.base_url, e))
    /\ UNCHANGED <<client, notConc>>

\* The post of task t fails with another exception.
ConcPostError(t, e) ==
    /\ calls[t].pc = "post"
    /\ calls' = Update(calls, t, PostRaised(calls[t], client.base_url, e))
    /\ UNCHANGED <<client, notConc>>

\* The post of task t yields a response.
ConcPostResponse(t, response) ==
    /\ calls[t].pc = "post"
    /\ calls' = Update(calls, t, PostReturned(calls[t], client.base_url, response))
    /\ UNCHANGED <<client, notConc>>

\* The backoff sleep of task t ends.
ConcWakeUp(t) ==
    /\ calls[t].pc = "sleep"
    /\ calls' = Update(calls, t, Woken(calls[t]))
    /\ UNCHANGED <<client, notConc>>

NextConc ==
    \/ \E t \in Tasks, op \in ConcOperations : \E arg \in OpArgs(op) :
           ConcCall(t, op, arg)
    \/ \E t \in Tasks, e \in ConcTimeouts : ConcPostTimeout(t, e)
    \/ \E t \in Tasks, e \in ConcErrors : ConcPostError(t, e)
    \/ \E t \in Tasks, response \in ConcResponses : ConcPostResponse(t, response)
    \/ \E t \in Tasks : ConcWakeUp(t)

SpecConc == Init /\ [][NextConc]_vars

(* ------------------------ the tools, one at a time --------------------- *)

\* The arguments a caller of each tool is let to pass.
Decks == { JNull, JStr(<<"Default">>) }

ReviewSet ==
    { [card_id |-> JInt(1), rating |-> "good"],
      [card_id |-> JInt(2), rating |-> "EASY"],
      [card_id |-> JStr(<<"x">>), rating |-> "good"],
      [card_id |-> JInt(3), rating |-> "great"],
      [card_id |-> JBool(TRUE), rating |-> "hard"] }

ReviewLists == UNION { [1..n -> ReviewSet] : n \in 0..MaxReviews }

ToolInputs(name) ==
    CASE name = "num_cards_due_today" -> { [NoInput EXCEPT !.deck = d] : d \in Decks }
      [] name = "list_decks_and_notes" -> { NoInput }
      [] name = "get_examples" ->
             { [NoInput EXCEPT !.limit = l, !.sample = s, !.seed = k] :
                 l \in {1, 2}, s \in {"random", "recent"}, k \in {1, 2} }
      [] name = "fetch_due_cards_for_review" ->
             { [NoInput EXCEPT !.deck = d, !.limit = l, !.today_only = b] :
                 d \in Decks, l \in {1, 2}, b \in BOOLEAN }
      [] name = "submit_reviews" ->
             { [NoInput EXCEPT !.reviews = r] : r \in ReviewLists }
      [] name = "add_note" ->
             { [NoInput EXCEPT !.deckName = "Default", !.modelName = "Basic",
                               !.fields = <<[name |-> "Front",
                                             value |-> <<"<math>", "x", "</math>">>]>>,
                               !.tags = g] :
                 g \in { JNull, JList(<<"maths">>) } }

\* The results the service is let to answer each operation with.
ToolResults(op) ==
    CASE op \in {"find_cards", "find_notes"} ->
             { JList(<<>>), JList(<<"1", "2", "3">>), JNull }
      [] op \in {"cards_info", "notes_info"} ->
             { JList(<<"{id: 1}", "{id: 2}">>), JNull }
      [] op = "deck_names" -> { JList(<<"Default", "AnKing">>), JList(<<>>) }
      [] op = "model_names" -> { JList(<<"Basic", "AnKing", "Cloze">>), JList(<<>>) }
      [] op = "model_field_names" -> { JList(<<"Front", "Back">>) }
      [] op = "answer_cards" ->
             { JList(<<>>), JList(<<"true">>), JList(<<"false", "true">>),
               JList(<<"true", "true", "true">>), JNull }
      [] op = "add_note" -> { JInt(12345), JInt(0), JNull, JBool(FALSE) }
      [] OTHER -> {}

\* The responses the service is let to give to an operation: a result, an
\* application error, a reply without a result, an error status.
ToolResponses(op) ==
    { [status |-> 200, body |-> ObjectBody(TRUE, r, TRUE, JNull)] : r \in ToolResults(op) }
    \cup { [status |-> 200,
            body |-> ObjectBody(TRUE, JNull, TRUE, JStr(<<"deck not found">>))],
           [status |-> 200, body |-> ObjectBody(FALSE, JNull, FALSE, JNull)],
           [status |-> 500, body |-> PlainBody("garbage")] }

\* The ways run of the legacy server is let to end.
RunOutcomes ==
    { Return(JNull), Raise(Exc("RuntimeError", <<"stdio closed">>)),
      Raise(Exc("CancelledError", <<>>)) }

\* A tool is called.
ToolCall(name, input) ==
    /\ tool.pc = "idle"
    /\ tool' = ToolBegin(name, input)
    /\ UNCHANGED <<client, legacy, notTools>>

\* The post of the operation the tool awaits fails with a timeout.
ToolPostTimeout(e) ==
    /\ tool.pc = "await" /\ tool.call.pc = "post"
    /\ tool' = Resumed(tool, PostRaised(tool.call, ANKI_CONNECT_URL, e))
    /\ UNCHANGED <<client, legacy, notTools>>

\* The post of the operation the tool awaits fails with another exception.
ToolPostError(e) ==
    /\ tool.pc = "await" /\ tool.call.pc = "post"
    /\ tool' = Resumed(tool, PostRaised(tool.call, ANKI_CONNECT_URL, e))
    /\ UNCHANGED <<client, legacy, notTools>>

\* The post of the operation the tool awaits yields a response.
ToolPostResponse(response) ==
    /\ tool.pc = "await" /\ tool.call.pc = "post"
    /\ response \in ToolResponses(tool.call.op)
    /\ tool' = Resumed(tool, PostReturned(tool.call, ANKI_CONNECT_URL, response))
    /\ UNCHANGED <<client, legacy, notTools>>

\* The backoff sleep of the operation the tool awaits ends.
ToolWakeUp ==
    /\ tool.pc = "await" /\ tool.call.pc = "sleep"
    /\ tool' = Resumed(tool, Woken(tool.call))
    /\ UNCHANGED <<client, legacy, notTools>>

\* The host cancels the tool while it is suspended in a post or in a sleep.
ToolCancel ==
    /\ tool.pc = "await"
    /\ tool' = Cancelled(tool)
    /\ UNCHANGED <<client, legacy, notTools>>

\* The caller of the tool has its text or its exception.
ToolLeave ==
    /\ tool.pc = "done"
    /\ tool' = IdleTool
    /\ UNCHANGED <<client, legacy, notTools>>

\* main of the legacy server starts: the server and its client are
\* constructed, and run is awaited.
LegacyMain ==
    /\ legacy.pc = "new"
    /\ legacy' = LegacyStarted(legacy)
    /\ UNCHANGED <<client, tool, notTools>>

\* run of the legacy server ends, normally or with an exception.
LegacyRunEnds(out) ==
    /\ legacy.pc = "run"
    /\ legacy' = LegacyEnded(legacy, out)
    /\ UNCHANGED <<client, tool, notTools>>

NextTools ==
    \/ \E name \in ToolNames : \E input \in ToolInputs(name) : ToolCall(name, input)
    \/ \E e \in ConcTimeouts : ToolPostTimeout(e)
    \/ \E e \in ConcErrors : ToolPostError(e)
    \/ \E op \in Operations : \E response \in ToolResponses(op) : ToolPostResponse(response)
    \/ ToolWakeUp
    \/ ToolCancel
    \/ ToolLeave
    \/ LegacyMain
    \/ \E out \in RunOutcomes : LegacyRunEnds(out)

SpecTools == Init /\ [][NextTools]_vars

(* ----------------------- the tools, concurrently ----------------------- *)

\* The tools, their arguments and the answers of the service when several
\* invocations run at the same time.
ConcToolNames == { "num_cards_due_today", "list_decks_and_notes" }

ConcToolResults(op) ==
    CASE op = "find_cards" -> JList(<<"1", "2", "3">>)
      [] op = "deck_names" -> JList(<<"Default">>)
      [] OTHER -> JList(<<>>)

ConcToolResponses(op) ==
    { [status |-> 200, body |-> ObjectBody(TRUE, ConcToolResults(op), TRUE, JNull)] }

\* Mutant of Acquire: the client is a singleton of the module, constructed by
\* the first invocation and handed to the later ones.
Acquire_Singleton(p, h, i) ==
    IF p = <<>>
    THEN [pool |-> <<"open">>, held |-> [h EXCEPT ![i] = 1]]
    ELSE [pool |-> p, held |-> [h EXCEPT ![i] = 1]]

\* get_anki_client, up to the yield: invocation i constructs a client of its
\* own, which is open.
Acquire(p, h, i) ==
    [pool |-> Append(p, "open"), held |-> [h EXCEPT ![i] = Len(p) + 1]]

\* After a step of invocation i, which is now t: the client it holds is
\* closed when the step has left the block.
Settle(p, h, i, t) ==
    IF h[i] # 0 /\ t.anki = "closed" THEN [p EXCEPT ![h[i]] = "closed"] ELSE p

\* Invocation i of a tool starts.
ConcToolCall(i, name) ==
    /\ tools[i].pc = "idle"
    /\ LET t == ToolBegin(name, NoInput)
           a == IF t.anki = "none" THEN [pool |-> pool, held |-> held]
                ELSE Acquire(pool, held, i)
       IN  /\ tools' = [tools EXCEPT ![i] = t]
           /\ held' = a.held
           /\ pool' = Settle(a.pool, a.held, i, t)
    /\ UNCHANGED <<client, call, ncalls, calls, tool, legacy>>

\* The operation invocation i awaits goes on to c.
ConcToolStep(i, c) ==
    LET t == Resumed(tools[i], c)
    IN  /\ tools' = [tools EXCEPT ![i] = t]
        /\ pool' = Settle(pool, held, i, t)
        /\ UNCHANGED <<client, call, ncalls, calls, tool, legacy, held>>

\* The post of the operation invocation i awaits times out.
ConcToolPostTimeout(i, e) ==
    /\ tools[i].pc = "await" /\ tools[i].call.pc = "post"
    /\ ConcToolStep(i, PostRaised(tools[i].call, ANKI_CONNECT_URL, e))

\* The post of the operation invocation i awaits yields a response.
ConcToolPostResponse(i, response) ==
    /\ tools[i].pc = "await" /\ tools[i].call.pc = "post"
    /\ response \in ConcToolResponses(tools[i].call.op)
    /\ ConcToolStep(i, PostReturned(tools[i].call, ANKI_CONNECT_URL, response))

\* The backoff sleep of the operation invocation i awaits ends.
ConcToolWakeUp(i) ==
    /\ tools[i].pc = "await" /\ tools[i].call.pc = "sleep"
    /\ ConcToolStep(i, Woken(tools[i].call))

\* The host cancels invocation i while it is suspended.
ConcToolCancel(i) ==
    /\ tools[i].pc = "await"
    /\ LET t == Cancelled(tools[i])
       IN  /\ tools' = [tools EXCEPT ![i] = t]
           /\ pool' = Settle(pool, held, i, t)
    /\ UNCHANGED <<client, call, ncalls, calls, tool, legacy, held>>

NextToolsConc ==
    \/ \E i \in Invocations, name \in ConcToolNames : ConcToolCall(i, name)
    \/ \E i \in Invocations, e \in ConcTimeouts : ConcToolPostTimeout(i, e)
    \/ \E i \in Invocations, op \in Operations :
           \E response \in ConcToolResponses(op) : ConcToolPostResponse(i, response)
    \/ \E i \in Invocations : ConcToolWakeUp(i)
    \/ \E i \in Invocations : ConcToolCancel(i)

SpecToolsConc == Init /\ [][NextToolsConc]_vars

(* ------------------- the handlers of the legacy server ----------------- *)

\* The decks a caller of get_cards_due is let to pass: none, a deck of the
\* list, a deck that is not of it, and the empty name.
LegacyDecks == { JNull, JStr(<<"Default">>), JStr(<<"Missing">>), JStr(<<>>) }

LegacyReviewSet ==
    { [card_id |-> JInt(1), rating |-> "good"],
      [card_id |-> JInt(2), rating |-> "easy"],
      [card_id |-> JStr(<<"x">>), rating |-> "good"],
      [card_id |-> JInt(3), rating |-> "EASY"] }

LegacyInputs(name) ==
    CASE name = "get_cards_due" ->
             { [NoInput EXCEPT !.deck = d, !.today_only = b] :
                 d \in LegacyDecks, b \in BOOLEAN }
      [] name = "submit_reviews" ->
             { [NoInput EXCEPT !.reviews = r] :
                 r \in UNION { [1..n -> LegacyReviewSet] : n \in 0..MaxReviews } }

\* The results the service is let to answer the operations of the legacy
\* handlers with.
LegacyResults(op) ==
    IF op = "deck_names" THEN ToolResults(op) \cup { JNull } ELSE ToolResults(op)

LegacyResponses(op) ==
    { [status |-> 200, body |-> ObjectBody(TRUE, r, TRUE, JNull)] : r \in LegacyResults(op) }
    \cup { [status |-> 200,
            body |-> ObjectBody(TRUE, JNull, TRUE, JStr(<<"deck not found">>))],
           [status |-> 500, body |-> PlainBody("garbage")] }

\* A handler of the running legacy server is called.
LegacyCall(name, input) ==
    /\ legacy.pc = "run" /\ tool.pc = "idle"
    /\ tool' = LegacyBegin(name, input)
    /\ UNCHANGED <<client, legacy, notTools>>

\* The post of the operation the handler awaits fails with a timeout.
LegacyPostTimeout(e) ==
    /\ tool.pc = "await" /\ tool.call.pc = "post"
    /\ tool' = LegacyResumed(tool, PostRaised(tool.call, ANKI_CONNECT_URL, e))
    /\ UNCHANGED <<client, legacy, notTools>>

\* The post of the operation the handler awaits fails with another exception.
LegacyPostError(e) ==
    /\ tool.pc = "await" /\ tool.call.pc = "post"
    /\ tool' = LegacyResumed(tool, PostRaised(tool.call, ANKI_CONNECT_URL, e))
    /\ UNCHANGED <<client, legacy, notTools>>

\* The post of the operation the handler awaits yields a response.
LegacyPostResponse(response) ==
    /\ tool.pc = "await" /\ tool.call.pc = "post"
    /\ response \in LegacyResponses(tool.call.op)
    /\ tool' = LegacyResumed(tool, PostReturned(tool.call, ANKI_CONNECT_URL, response))
    /\ UNCHANGED <<client, legacy, notTools>>

\* The backoff sleep of the operation the handler awaits ends.
LegacyWakeUp ==
    /\ tool.pc = "await" /\ tool.call.pc = "sleep"
    /\ tool' = LegacyResumed(tool, Woken(tool.call))
    /\ UNCHANGED <<client, legacy, notTools>>

\* The caller of the handler has its result or its exception.
LegacyLeave ==
    /\ legacy.pc = "run" /\ tool.pc = "done"
    /\ tool' = IdleTool
    /\ UNCHANGED <<client, legacy, notTools>>

\* run ends while no handler is in progress.
LegacyStop(out) ==
    /\ tool.pc = "idle"
    /\ LegacyRunEnds(out)

NextLegacy ==
    \/ LegacyMain
    \/ \E name \in LegacyNames : \E input \in LegacyInputs(name) : LegacyCall(name, input)
    \/ \E e \in ConcTimeouts : LegacyPostTimeout(e)
    \/ \E e \in ConcErrors : LegacyPostError(e)
    \/ \E op \in Operations : \E response \in LegacyResponses(op) : LegacyPostResponse(response)
    \/ LegacyWakeUp
    \/ LegacyLeave
    \/ \E out \in RunOutcomes : LegacyStop(out)

SpecLegacy == Init /\ [][NextLegacy]_vars

(* ------------------- the vocabulary of the properties ------------------ *)

Done == call.pc = "done"

\* The number of POST attempts the current call has made.
Attempts == Len(call.sent)

TimedOut(e) == IsInstance(e, "TimeoutException")

\* Every delivery attempt of the current call failed with a timeout.
AllTimedOut ==
    /\ call.hist # <<>>
    /\ \A i \in 1..Len(call.hist) : TimedOut(call.hist[i])

\* The number of attempts of the current call that timed out.
Timeouts == Cardinality({ i \in 1..Len(call.hist) : TimedOut(call.hist[i]) })

Raised == call.outcome.kind = "raise"

Returned == call.outcome.kind = "return"

\* The other kinds of failure, as the client's messages tell them apart.
IsTransportFailure(e) ==
    /\ e.type = "RuntimeError"
    /\ StartsWith(e.msg, <<"Failed to communicate with AnkiConnect: ">>)

IsApplicationError(e) ==
    /\ e.type = "ValueError"
    /\ StartsWith(e.msg, <<"AnkiConnect error: ">>)

IsUnexpectedFailure(e) ==
    /\ e.type = "RuntimeError"
    /\ StartsWith(e.msg, <<"Unexpected error during AnkiConnect operation: ">>)

\* The service answered the current call with a success status.
Answered == call.resp # NoResponse

SuccessStatus == Answered /\ call.resp.status < 400

\* The body of the answer is a JSON object with a result and an error field.
Envelope ==
    /\ SuccessStatus
    /\ call.resp.body.kind = "object"
    /\ call.resp.body.hasResult
    /\ call.resp.body.hasError

(* ------------------------------ C1 .. C10 ------------------------------ *)

\* C1: a call never makes a 4th POST attempt, and a call whose attempts all
\* timed out has made exactly 3 of them when it ends, ends with the
\* connection-failure error and returns no result.
C1_ExhaustedRetries ==
    /\ Attempts <= 3
    /\ (Done /\ AllTimedOut) =>
           /\ Attempts = 3
           /\ Raised
           /\ IsConnectionFailure(call.outcome.exc)

C1_Witness ==
    /\ Done
    /\ AllTimedOut
    /\ Attempts = 3
    /\ Raised

C3_StopsAtResponse ==
    /\ Len(call.hist) = Attempts
    /\ \A i \in 1..Len(call.hist) :
           call.hist[i] = NoExc => (i = Len(call.hist) /\ Done /\ Answered)
    /\ Answered =>
           /\ Done
           /\ call.hist[Len(call.hist)] = NoExc
           /\ Attempts = Timeouts + 1
           /\ Len(call.sleeps) = Timeouts
           /\ Returned => call.outcome.value = call.resp.body.result
           /\ Raised => ~IsConnectionFailure(call.outcome.exc)
           /\ call.outcome =
                  PostReturned(InvokeBegin(call.action, {}), client.base_url,
                               call.resp).outcome

\* A timeout, then a response with an application-level error: 2 attempts.
C3_Witness ==
    /\ Done
    /\ Attempts = 2
    /\ Len(call.sleeps) = 1
    /\ TimedOut(call.hist[1])
    /\ Envelope
    /\ call.resp.body.error = JStr(<<"deck not found">>)
    /\ Raised

\* C4: an attempt that fails with a transport error that is no timeout is the
\* last attempt of its call, and no backoff sleep follows it.
C4_NoRetryOfOtherErrors ==
    \A i \in 1..Len(call.hist) :
        (call.hist[i] # NoExc /\ ~TimedOut(call.hist[i])) =>
            /\ Done
            /\ i = Len(call.hist)
            /\ Attempts = i
            /\ Len(call.sleeps) = i - 1

C4_Witness ==
    /\ Done
    /\ Attempts = 2
    /\ call.hist[2].type = "ConnectError"
    /\ Len(call.sleeps) = 1

\* C5 (as claimed): the error raised after the retries are exhausted carries
\* the client's endpoint URL, the text "3 attempts" and the message of the last
\* timeout.
C5_ConnectionFailureCarries ==
    (Done /\ AllTimedOut /\ Attempts = 3 /\ Raised) =>
        /\ Contains(call.outcome.exc.msg, <<client.base_url>>)
        /\ Contains(call.outcome.exc.msg, <<"3", " attempts">>)
        /\ Contains(call.outcome.exc.msg, call.hist[3].msg)

\* C6: an answer with a success status whose envelope has error = null and
\* result = R makes invoke return R as it is, for every known action, with or
\* without earlier timeouts.
C6_ResultUnmodified ==
    (Done /\ Envelope /\ call.resp.body.error = JNull) =>
        /\ call.action \in AnkiAction
        /\ call.outcome = Return(call.resp.body.result)

\* The falsy result 0, returned by the third attempt.
C6_Witness ==
    /\ Done
    /\ Envelope
    /\ call.resp.body.error = JNull
    /\ call.resp.body.result = JInt(0)
    /\ Attempts = 3
    /\ Returned

\* C7 (as claimed): an envelope whose error is a string X, the empty string
\* included, makes invoke fail with the application error whose message
\* contains X, whatever the result is.
C7_ErrorAlwaysRaises ==
    (Done /\ Envelope /\ call.resp.body.error.t = "str") =>
        /\ Raised
        /\ IsApplicationError(call.outcome.exc)
        /\ Contains(call.outcome.exc.msg, call.resp.body.error.s)

\* C8: an answer with a non-success status makes invoke fail with the
\* transport failure, whose message embeds the text of the status error and
\* whose cause is that error; the body is not decoded and nothing is returned.
C8_StatusError ==
    (Done /\ Answered /\ ~SuccessStatus) =>
        /\ Raised
        /\ IsTransportFailure(call.outcome.exc)
        /\ call.outcome.cause.type = "HTTPStatusError"
        /\ Contains(call.outcome.cause.msg, <<ToString(call.resp.status)>>)
        /\ Contains(call.outcome.exc.msg, call.outcome.cause.msg)
        /\ ~call.parsed

C8_Witness ==
    /\ Done
    /\ Answered
    /\ call.resp.status = 500
    /\ call.resp.body.kind = "object"
    /\ Raised

\* The body of the answer cannot be decoded or is no valid response envelope.
BadBody ==
    /\ SuccessStatus
    /\ \/ json_error(call.resp) # NoExc
       \/ ~ResponseValid(call.resp.body)

\* C9 (as claimed): a success status with a body that cannot be decoded or
\* validated makes invoke fail with the unexpected failure wrapping the original
\* exception, and invoke raises an error of the application-error type only
\* for a decoded envelope that carries an error.
C9_BadBodyIsUnexpected ==
    /\ (Done /\ BadBody) =>
           /\ Raised
           /\ IsUnexpectedFailure(call.outcome.exc)
           /\ call.outcome.cause # NoExc
    /\ (Done /\ Answered /\ Raised /\ IsInstance(call.outcome.exc, "ValueError")) =>
           (Envelope /\ call.resp.body.error.t = "str")

\* C10 (as claimed): every error a call that reached the transport ends with
\* is of one of the four kinds.
C10_ClosedTaxonomy ==
    (Done /\ Raised /\ Attempts > 0) =>
        \/ IsConnectionFailure(call.outcome.exc)
        \/ IsTransportFailure(call.outcome.exc)
        \/ IsApplicationError(call.outcome.exc)
        \/ IsUnexpectedFailure(call.outcome.exc)

(* ------------------------------ C11 .. C20 ----------------------------- *)

\* C11: every attempt posts exactly one envelope; each envelope has version 6
\* and the action and params the caller passed, also when the caller passed a
\* keyword named version; all the envelopes of a call are the same.
C11_Envelope ==
    /\ Attempts = Len(call.hist)
    /\ \A i \in 1..Attempts :
           /\ call.sent[i].json.version = 6
           /\ call.sent[i].json.action = call.action
           /\ call.sent[i].json.params = call.params
           /\ call.sent[i].json = call.sent[1].json

\* Three envelopes of a call whose caller passed version=5.
C11_Witness ==
    /\ Done
    /\ Attempts = 3
    /\ <<"version", JInt(5)>> \in call.params
    /\ call.sent[3].json.version = 6

\* The current call is a call of a convenience operation.
ViaOperation == call.op \in Operations

\* The caller of the operation gets the failure of invoke wrapped: a new error
\* whose message is the context of the operation followed by the original
\* message, and whose cause is the original error.
ResultIsWrapped ==
    /\ call.result.kind = "raise"
    /\ call.result.exc.type = "RuntimeError"
    /\ call.result.exc.msg = OpPrefix(call.op) \o call.outcome.exc.msg
    /\ call.result.exc # call.outcome.exc
    /\ call.result.cause = call.outcome.exc

\* The retries of the current call are exhausted.
Exhausted == AllTimedOut /\ Attempts = 3

\* C12 (as claimed): every convenience operation re-raises every failure of
\* invoke wrapped in its own context.
C12_AllWrapped ==
    (Done /\ ViaOperation /\ Raised) => ResultIsWrapped

\* C12 (amended): the contexts of two operations differ, and every convenience
\* operation re-raises every failure of invoke wrapped in its own context,
\* except that deck_names re-raises the connection failure of exhausted
\* retries as it is.
C12_WrappedButDeckNames ==
    /\ \A o1, o2 \in Operations : o1 # o2 => OpPrefix(o1) # OpPrefix(o2)
    /\ (Done /\ ViaOperation /\ Raised) =>
           IF call.op = "deck_names" /\ Exhausted
           THEN call.result = call.outcome
           ELSE ResultIsWrapped

\* find_cards has wrapped the connection failure of exhausted retries.
C12_Witness ==
    /\ Done
    /\ call.op = "find_cards"
    /\ Exhausted
    /\ ResultIsWrapped

\* The kind of a failure of invoke.
KindOf(e) ==
    CASE IsConnectionFailure(e) -> "connection"
      [] IsTransportFailure(e) -> "transport"
      [] IsApplicationError(e) -> "application"
      [] IsUnexpectedFailure(e) -> "unexpected"
      [] OTHER -> "other"

\* The kind a caller of op reads off the message of the error it gets: the
\* text after the context of op starts with the fixed text of the kind.
KindRead(op, e) ==
    LET text == IF StartsWith(e.msg, OpPrefix(op))
                THEN SubSeq(e.msg, Len(OpPrefix(op)) + 1, Len(e.msg))
                ELSE e.msg
    IN  CASE StartsWith(text, <<"Unable to connect to Anki">>) -> "connection"
          [] StartsWith(text, <<"Failed to communicate with AnkiConnect: ">>) -> "transport"
          [] StartsWith(text, <<"AnkiConnect error: ">>) -> "application"
          [] StartsWith(text, <<"Unexpected error during AnkiConnect operation: ">>) ->
                 "unexpected"
          [] OTHER -> "other"

\* C13: the kind of the failure of invoke is read off the error the
\* convenience operation raises, for every operation and every failure, so
\* failures of two kinds never give errors that read the same.
C13_KindRecoverable ==
    (Done /\ ViaOperation /\ Raised) =>
        /\ call.result.kind = "raise"
        /\ KindRead(call.op, call.result.exc) = KindOf(call.outcome.exc)

\* answer_cards has wrapped an application error, whose type is lost.
C13_Witness ==
    /\ Done
    /\ call.op = "answer_cards"
    /\ KindOf(call.outcome.exc) = "application"
    /\ call.result.exc.type = "RuntimeError"
    /\ KindRead(call.op, call.result.exc) = "application"

\* The action and the keyword of each convenience operation ("": none).
C20_Table ==
    { <<"deck_names", "deckNames", "">>, <<"find_cards", "findCards", "query">>,
      <<"cards_info", "cardsInfo", "cards">>,
      <<"answer_cards", "answerCards", "answers">>,
      <<"model_names", "modelNames", "">>,
      <<"model_field_names", "modelFieldNames", "modelName">>,
      <<"add_note", "addNote", "note">>, <<"find_notes", "findNotes", "query">>,
      <<"notes_info", "notesInfo", "notes">> }

\* C20: every envelope a convenience operation sends has the action of the
\* operation and, as its only parameter, the caller's argument under the
\* keyword of the operation (no parameter for deck_names and model_names); when
\* invoke returns, the operation returns the same value.
C20_ThinWrappers ==
    ViaOperation =>
        /\ \E row \in C20_Table : row[1] = call.op
        /\ \A row \in C20_Table : row[1] = call.op =>
               \A i \in 1..Attempts :
                   /\ call.sent[i].json.action = row[2]
                   /\ call.sent[i].json.params =
                          IF row[3] = "" THEN {} ELSE {<<row[3], call.arg>>}
        /\ (Done /\ Returned) =>
               /\ call.result = call.outcome
               /\ call.result = Return(call.resp.body.result)

\* notes_info has returned the list the service answered with.
C20_Witness ==
    /\ Done
    /\ call.op = "notes_info"
    /\ call.arg = JList(<<"1", "2", "3">>)
    /\ Attempts = 2
    /\ call.result = Return(JList(<<"Default", "Test">>))

\* The number of attempts of call c that timed out.
TimeoutsOf(c) == Cardinality({ i \in 1..Len(c.hist) : TimedOut(c.hist[i]) })

\* C15: under every interleaving, what each task's call does is decided by
\* what its own posts yielded: it posts its own envelope, its loop counter
\* counts its own timeouts, it sleeps 1s and 2s after its own first two
\* timeouts, it gives up after 3 timeouts of its own and not before, and when
\* it is answered it ends as a call that runs alone ends with that response.
C15_Independent ==
    \A t \in Tasks :
        LET c == calls[t] IN
        /\ Len(c.sent) = Len(c.hist)
        /\ \A i \in 1..Len(c.sent) : c.sent[i].json.action = OpAction(c.op)
        /\ c.pc = "post" => c.attempt = TimeoutsOf(c)
        /\ c.pc = "post" => Len(c.hist) < 3
        /\ c.sleeps = SubSeq(<<1, 2>>, 1, IF TimeoutsOf(c) < 2 THEN TimeoutsOf(c) ELSE 2)
        /\ (c.pc = "done" /\ TimeoutsOf(c) = Len(c.hist)) =>
               /\ Len(c.hist) = 3
               /\ IsConnectionFailure(c.outcome.exc)
        /\ c.resp # NoResponse =>
               /\ c.pc = "done"
               /\ Len(c.sent) = TimeoutsOf(c) + 1
               /\ c.outcome = PostReturned(OpBegin(c.op, c.arg), client.base_url,
                                           c.resp).outcome
               /\ c.result = PostReturned(OpBegin(c.op, c.arg), client.base_url,
                                          c.resp).result
               /\ c.outcome.kind = "return" => c.result.value = c.resp.body.result

\* One task has exhausted its retries after three timeouts of its own and
\* another got its result from its first attempt.
C15_Witness ==
    \E t, u \in Tasks :
        /\ t # u
        /\ calls[t].pc = "done"
        /\ TimeoutsOf(calls[t]) = 3
        /\ calls[u].pc = "done"
        /\ Len(calls[u].sent) = 1
        /\ calls[u].result = Return(JList(<<"Default", "Test">>))

\* The tool invocation or the legacy server has acquired a client.
Acquired(u) == u.anki # "none"

\* C14: a client acquired through get_anki_client is open while the block
\* that uses it is suspended and has been closed exactly once when the block
\* has been left, whether the tool returned a text, an operation raised
\* (the exception is logged, goes on to the decorator after the close and
\* decides the tool's text) or the suspended call was cancelled (the tool
\* raises CancelledError); the client of the legacy server is open while run
\* is awaited and has been closed exactly once when main is over, however
\* run ended.
C14_ClosedOnce ==
    /\ tool.closes <= 1
    /\ tool.pc = "await" => tool.anki = "open" /\ tool.closes = 0
    /\ (tool.pc = "done" /\ Acquired(tool)) =>
           /\ tool.anki = "closed"
           /\ tool.closes = 1
           /\ Len(tool.logged) <= 1
           /\ tool.logged # <<>> =>
                  tool.out = handle_anki_connection_error(tool.name,
                                                          Raise(tool.logged[1]))
    /\ (tool.pc = "done" /\ ~Acquired(tool)) => tool.ops = <<>> /\ tool.closes = 0
    /\ legacy.closes <= 1
    /\ legacy.pc = "run" => legacy.anki = "open" /\ legacy.closes = 0
    /\ legacy.pc = "done" => legacy.anki = "closed" /\ legacy.closes = 1

\* A tool suspended in the backoff sleep of its second operation was
\* cancelled and has raised CancelledError with its client closed, and the
\* legacy server has closed its client after run raised.
C14_Witness ==
    /\ tool.pc = "done"
    /\ tool.out = Raise(Exc("CancelledError", <<>>))
    /\ Len(tool.ops) = 2
    /\ tool.call.pc = "sleep"
    /\ tool.anki = "closed"
    /\ legacy.pc = "done"
    /\ legacy.out.kind = "raise"
    /\ legacy.anki = "closed"

\* The lines of a text: the runs of tokens between its newlines.
RECURSIVE Split(_)
Split(text) ==
    IF \A i \in 1..Len(text) : text[i] # "\n" THEN <<text>>
    ELSE LET i == CHOOSE k \in 1..Len(text) :
                      text[k] = "\n" /\ \A j \in 1..(k - 1) : text[j] # "\n"
         IN  <<SubSeq(text, 1, i - 1)>> \o Split(SubSeq(text, i + 1, Len(text)))

\* submit_reviews got from answer_cards a list shorter than the list of the
\* reviews it submitted.
ShortList ==
    /\ tool.pc = "done"
    /\ tool.name = "submit_reviews"
    /\ Len(tool.got) = 1
    /\ tool.got[1].kind = "return"
    /\ tool.got[1].value.t = "list"
    /\ Len(tool.got[1].value.s) < Len(tool.input.reviews)

\* C16: when the service answers N valid reviews with a list of M < N
\* booleans, submit_reviews returns a text: a summary line and one line for
\* each of the N reviews, in their order; the line of every review from the
\* M+1st on says it failed; and the two counts of the summary are the numbers
\* of the lines that say success and failure, which sum to N.
C16_ShortListFails ==
    ShortList =>
        LET N == Len(tool.input.reviews)
            M == Len(tool.got[1].value.s)
            lines == Split(tool.out.value.s)
            ok == { i \in 1..N : Contains(lines[i + 1], <<"' successfully.">>) }
            failed == { i \in 1..N : Contains(lines[i + 1], <<": Failed to mark as '">>) }
        IN  /\ tool.out.kind = "return"
            /\ Len(lines) = N + 1
            /\ \A i \in 1..N :
                   /\ lines[i + 1][1] = "Card "
                   /\ lines[i + 1][2] = StrOf(tool.input.reviews[i].card_id)
            /\ ok \cap failed = {}
            /\ ok \cup failed = 1..N
            /\ (M + 1)..N \subseteq failed
            /\ lines[1] = <<"Review submission summary: ", ToString(Cardinality(ok)),
                            " successful, ", ToString(Cardinality(failed)), " failed.">>
            /\ Cardinality(ok) + Cardinality(failed) = N

\* Two reviews were answered with the one-item list [true]: the first is
\* reported as a success and the second as a failure.
C16_Witness ==
    /\ ShortList
    /\ Len(tool.input.reviews) = 2
    /\ tool.got[1].value = JList(<<"true">>)
    /\ Split(tool.out.value.s)[1] =
           <<"Review submission summary: ", "1", " successful, ", "1", " failed.">>

\* The add_note tool is over and the service answered its one request with
\* status 200 and a JSON object that holds no error.
AddNoteAnswered ==
    /\ tool.pc = "done"
    /\ tool.name = "add_note"
    /\ tool.call.resp # NoResponse
    /\ tool.call.resp.status = 200
    /\ tool.call.resp.body.kind = "object"
    /\ ~Truthy(tool.call.resp.body.error)

AddNoteSuccessText(note_id) ==
    JStr(<<"Successfully created note with ID: ", StrOf(note_id), " in deck '",
           tool.input.deckName, "'.">>)

AddNoteFailed(text) ==
    /\ text.t = "str"
    /\ StartsWith(text.s, <<"SYSTEM_ERROR:", " ", "Failed to add note">>)

\* C17 as stated: whenever the service replies without an error, the tool
\* reports success exactly when the result is truthy and returns the 'Failed
\* to add note' text when the result is null, 0 or absent.
C17_AbsentIsFailedToAdd ==
    AddNoteAnswered =>
        LET body == tool.call.resp.body
            result == IF body.hasResult THEN body.result ELSE JNull
        IN  /\ tool.out.kind = "return"
            /\ Truthy(result) => tool.out.value = AddNoteSuccessText(result)
            /\ ~Truthy(result) => AddNoteFailed(tool.out.value)

\* C17, amended: when the reply holds a result and no error, the client's
\* add_note returns the result unchanged, and the tool reports success, naming
\* the result, exactly when the result is truthy, and returns the 'Failed to
\* add note' text when it is falsy (null, 0, false); when the reply holds no
\* result at all, the client's add_note raises and the tool returns the
\* decorator's 'unexpected error' text, which holds the client's message.
C17_TruthyResult ==
    AddNoteAnswered =>
        LET body == tool.call.resp.body
        IN  /\ tool.out.kind = "return"
            /\ body.hasResult =>
                   /\ tool.got = <<Return(body.result)>>
                   /\ Truthy(body.result) <=>
                          tool.out.value = AddNoteSuccessText(body.result)
                   /\ ~Truthy(body.result) <=> AddNoteFailed(tool.out.value)
            /\ ~body.hasResult =>
                   /\ tool.got[1].kind = "raise"
                   /\ StartsWith(tool.got[1].exc.msg, <<"Error adding note: ">>)
                   /\ tool.out.value =
                          JStr(UnexpectedText("add_note", tool.got[1].exc))
                   /\ ~AddNoteFailed(tool.out.value)

\* The service answered add_note with the result 0 and the tool returned the
\* 'Failed to add note' text.
C17_Witness ==
    /\ AddNoteAnswered
    /\ tool.call.resp.body.hasResult
    /\ tool.call.resp.body.result = JInt(0)
    /\ AddNoteFailed(tool.out.value)

\* The tool is over and was not cancelled.
Completed == tool.pc = "done" /\ tool.out # Raise(Exc("CancelledError", <<>>))

\* The i-th operation the tool called failed because the retries were
\* exhausted.
Unreachable(i) ==
    /\ tool.got[i].kind = "raise"
    /\ Contains(tool.got[i].exc.msg, <<"Unable to connect to Anki">>)

\* The text is the connectivity guidance of the decorator.
IsGuidance(out) ==
    /\ out.kind = "return"
    /\ out.value.t = "str"
    /\ StartsWith(out.value.s, <<"SYSTEM_ERROR:", " Cannot connect to Anki. ">>)
    /\ Contains(out.value.s,
                <<"Please inform the user that they need to start their Anki application ",
                  "and ensure the AnkiConnect add-on is installed and enabled before proceeding. ">>)

\* C18 as stated: whenever an operation used by a tool failed because the
\* service could not be reached after the retries, the tool returns the
\* connectivity guidance text.
C18_GuidanceWhenUnreachable ==
    (Completed /\ \E i \in 1..Len(tool.got) : Unreachable(i)) =>
        IsGuidance(tool.out)

\* The message the service reports in its application-level errors.
X == <<"deck not found">>

\* The i-th operation the tool called failed because the service reported
\* the application-level error X.
Reported(i) ==
    /\ tool.got[i].kind = "raise"
    /\ Contains(tool.got[i].exc.msg, <<"AnkiConnect error: ">> \o X)

IsSystemError(out) ==
    /\ out.kind = "return"
    /\ out.value.t = "str"
    /\ StartsWith(out.value.s, <<"SYSTEM_ERROR:">>)

\* C19 as stated: whenever the service reported the application-level error
\* X to an operation used by a tool, the tool returns a text that starts with
\* 'SYSTEM_ERROR:' and contains X.
C19_EveryErrorSurfaces ==
    (Completed /\ \E i \in 1..Len(tool.got) : Reported(i)) =>
        /\ IsSystemError(tool.out)
        /\ Contains(tool.out.value.s, X)

\* C19, amended: when the service reports the application-level error X to
\* an operation of a tool other than the field lookups of
\* list_decks_and_notes, the tool calls no further operation and returns the
\* text 'SYSTEM_ERROR: An unexpected error occurred while executing the Anki
\* tool ...' followed by the operation's context, 'AnkiConnect error: ' and
\* X; when it reports X to a model_field_names call of list_decks_and_notes,
\* the tool goes on to the next model, and the text it returns when it is
\* not cancelled is the listing, which is no SYSTEM_ERROR text and holds
\* neither X nor the name of the skipped model.
C19_SurfacesButFieldLookup ==
    tool.pc = "done" =>
        \A i \in 1..Len(tool.got) :
            Reported(i) =>
                IF tool.ops[i].op = "model_field_names"
                THEN /\ tool.name = "list_decks_and_notes"
                     /\ tool.out.kind = "return" =>
                            /\ ~IsSystemError(tool.out)
                            /\ ~Contains(tool.out.value.s, X)
                            /\ ~Contains(tool.out.value.s,
                                         <<"- ">> \o tool.ops[i].arg.s)
                ELSE /\ i = Len(tool.got)
                     /\ Len(tool.ops) = i
                     /\ tool.out =
                            Text(<<"SYSTEM_ERROR:",
                                   " An unexpected error occurred while executing the Anki tool '",
                                   tool.name, "'. ", "Details: ">>
                                 \o OpPrefix(tool.ops[i].op)
                                 \o <<"AnkiConnect error: ">> \o X)
                     /\ IsSystemError(tool.out)
                     /\ Contains(tool.out.value.s, X)

\* The service reported X to answer_cards and submit_reviews returned the
\* SYSTEM_ERROR text that holds X.
C19_Witness ==
    /\ tool.pc = "done"
    /\ tool.name = "submit_reviews"
    /\ Len(tool.got) = 1
    /\ Reported(1)
    /\ IsSystemError(tool.out)
    /\ Contains(tool.out.value.s, X)

(* ------------------------------ C21 .. C30 ----------------------------- *)

\* C21: the endpoint and the connect, read and write timeouts of the client
\* are those it was constructed with: no step of any invoke or convenience
\* call changes them, and every post of every call, first attempt or retry,
\* went to that endpoint (post is given no timeout of its own, so that the
\* client's timeouts apply to it).
C21_FixedAtConstruction ==
    /\ [](/\ client.timeout = TIMEOUTS
          /\ \A i \in 1..Len(call.sent) : call.sent[i].url = client.base_url)
    /\ [][client' = client]_vars

\* A call on a client constructed with another endpoint than the default one
\* has ended after three posts, all of them sent to that endpoint.
C21_Witness ==
    /\ client.base_url # ANKI_CONNECT_URL
    /\ call.pc = "done"
    /\ Len(call.sent) = 3
    /\ \A i \in 1..3 : call.sent[i].url = client.base_url

\* An invoke call is in progress: a post is in flight or it sleeps.
InFlight == call.pc \in {"post", "sleep"}

\* C22 as stated: every call to invoke ends, and it ends after at least 1
\* and at most 3 attempts and at most 2 backoff sleeps.
C22_OneToThreeAttempts ==
    /\ InFlight ~> call.pc = "done"
    /\ [](call.pc = "done" =>
            /\ Len(call.sent) \in 1..3
            /\ Len(call.sleeps) <= 2)

\* C22, amended: every call to invoke ends, returning a result or raising
\* an error; a call with one of the nine known actions ends after at least
\* 1 and at most 3 attempts, a call with another action after none; there
\* are at most 2 backoff sleeps, one after each attempt but the last one.
C22_Terminates ==
    /\ InFlight ~> call.pc = "done"
    /\ [](call.pc = "done" =>
            /\ call.outcome.kind \in {"return", "raise"}
            /\ call.action \in AnkiAction => Len(call.sent) \in 1..3
            /\ call.action \notin AnkiAction => Len(call.sent) = 0
            /\ Len(call.sleeps) <= 2
            /\ Len(call.sleeps) = IF Len(call.sent) = 0 THEN 0
                                  ELSE Len(call.sent) - 1)
    /\ [](InFlight => Len(call.sent) < 3 /\ Len(call.sleeps) <= 2)

\* A call has ended with a result at its third attempt, after two timeouts
\* and two backoff sleeps.
C22_Witness ==
    /\ call.pc = "done"
    /\ call.outcome.kind = "return"
    /\ Len(call.sent) = 3
    /\ Len(call.sleeps) = 2

\* C23: when invoke, called by deck_names, raises the connection failure of
\* exhausted retries, the caller of deck_names gets that very error: its
\* type and its message, with no 'Error getting deck names: ' before it and
\* no new cause; for every other failure of invoke the caller gets a
\* RuntimeError whose message is 'Error getting deck names: ' followed by the
\* original message.
C23_DeckNamesPropagates ==
    (Done /\ call.op = "deck_names" /\ Raised) =>
        IF Exhausted
        THEN /\ call.outcome.exc = ConnectionFailure(client.base_url, call.hist[3])
             /\ call.result.exc.type = call.outcome.exc.type
             /\ call.result.exc.msg = call.outcome.exc.msg
             /\ call.result.cause = call.outcome.cause
             /\ ~Contains(call.result.exc.msg, <<"Error getting deck names: ">>)
        ELSE /\ call.result.exc.type = "RuntimeError"
             /\ call.result.exc.msg =
                    <<"Error getting deck names: ">> \o call.outcome.exc.msg
             /\ ~IsConnectionFailure(call.outcome.exc)

\* deck_names has ended after three timeouts, and its caller has the
\* connection failure without a prefix.
C23_Witness ==
    /\ Done
    /\ call.op = "deck_names"
    /\ Exhausted
    /\ call.result.exc.msg[1] = "Unable to connect to Anki"

\* C28: a call of invoke with an action that is none of the nine known ones
\* is over as soon as it is made: it has raised the validation error of the
\* request envelope, no post was issued and no backoff sleep was made.
C28_UnknownActionSendsNothing ==
    (call.pc # "idle" /\ call.action \notin AnkiAction) =>
        /\ call.pc = "done"
        /\ call.outcome.kind = "raise"
        /\ call.outcome.exc.type = "ValidationError"
        /\ call.request = NoRequest
        /\ call.sent = <<>>
        /\ call.hist = <<>>
        /\ call.sleeps = <<>>

\* invoke was called with the action sync and has raised.
C28_Witness ==
    /\ call.pc = "done"
    /\ call.action = "sync"
    /\ call.outcome.kind = "raise"
    /\ call.sent = <<>>

\* C27: fetch_due_cards_for_review calls find_cards first and cards_info
\* after it, and nothing else; it asks cards_info for the first `limit` of the
\* ids find_cards returned (all of them when there are fewer), in their
\* order; and when find_cards returned no ids it returns a 'No cards found'
\* text and has not called cards_info.
C27_FirstLimitIds ==
    tool.name = "fetch_due_cards_for_review" =>
        /\ Len(tool.ops) <= 2
        /\ Len(tool.ops) >= 1 => tool.ops[1].op = "find_cards"
        /\ Len(tool.ops) = 2 =>
               LET ids == tool.got[1].value.s
                   asked == tool.ops[2].arg.s
               IN  /\ tool.ops[2].op = "cards_info"
                   /\ tool.got[1].kind = "return"
                   /\ tool.ops[2].arg.t = "list"
                   /\ asked # <<>>
                   /\ Len(asked) <= tool.input.limit
                   /\ Len(asked) = IF Len(ids) < tool.input.limit
                                   THEN Len(ids) ELSE tool.input.limit
                   /\ \A i \in 1..Len(asked) : asked[i] = ids[i]
        /\ (tool.pc = "done" /\ tool.got # <<>> /\ tool.got[1] = Return(JList(<<>>))) =>
               /\ Len(tool.ops) = 1
               /\ tool.out.kind = "return"
               /\ StartsWith(tool.out.value.s, <<"No cards found due ">>)

\* find_cards returned three ids to a call with limit 2, and cards_info was
\* asked for the first two.
C27_Witness ==
    /\ tool.name = "fetch_due_cards_for_review"
    /\ tool.pc = "done"
    /\ tool.input.limit = 2
    /\ Len(tool.got) = 2
    /\ tool.got[1] = Return(JList(<<"1", "2", "3">>))
    /\ tool.ops[2].arg = JList(<<"1", "2">>)
    /\ tool.got[2].kind = "return"

\* A call of submit_reviews, and the reviews it was given.
Submitting == tool.pc # "idle" /\ tool.name = "submit_reviews"

\* The review reads as the claim's words say a valid review reads: its
\* card_id is an integer and its rating is one of the four words.
ValidAsWritten(review) ==
    /\ review.card_id.t = "int"
    /\ review.rating \in {"wrong", "hard", "good", "easy"}

\* The review passes the checks of the tool: its card_id is an int or a
\* bool, and its rating, in lowercase, is one of the four words.
ValidAsChecked(review) ==
    /\ review.card_id.t \in {"int", "bool"}
    /\ Lower(review.rating) \in {"wrong", "hard", "good", "easy"}

EaseOf(rating) ==
    CASE Lower(rating) = "wrong" -> "1"
      [] Lower(rating) = "hard" -> "2"
      [] Lower(rating) = "good" -> "3"
      [] Lower(rating) = "easy" -> "4"
      [] OTHER -> "None"

\* No client was created and nothing was sent; the tool has returned a text
\* with one line for each review that fails Valid, in their order, naming its
\* card_id or its rating.
Rejected(Valid(_)) ==
    LET reviews == tool.input.reviews
        bad == SelectSeq(reviews, LAMBDA r : ~Valid(r))
        lines == Split(tool.out.value.s)
    IN  /\ tool.pc = "done"
        /\ tool.anki = "none"
        /\ tool.closes = 0
        /\ tool.ops = <<>>
        /\ tool.out.kind = "return"
        /\ reviews = <<>> => tool.out = Text(<<"No reviews provided to submit.">>)
        /\ reviews # <<>> =>
               /\ lines[1] = <<"SYSTEM_ERROR:",
                               " Could not submit reviews due to validation errors:">>
               /\ Len(lines) = 1 + Len(bad)
               /\ \A k \in 1..Len(bad) :
                      /\ lines[k + 1][1] \in {"Invalid card_id '", "Invalid rating '"}
                      /\ Contains(lines[k + 1], <<StrOf(bad[k].card_id)>>)

\* One client was created, and the one operation called is answer_cards,
\* with one {cardId, ease} answer for each review, in their order, the ease
\* being that of the rating; every post of that call, the retries after a
\* timeout included, carries that list.
Submitted ==
    LET reviews == tool.input.reviews IN
    /\ tool.anki # "none"
    /\ Len(tool.ops) = 1
    /\ tool.ops[1].op = "answer_cards"
    /\ tool.ops[1].arg.t = "list"
    /\ Len(tool.ops[1].arg.s) = Len(reviews)
    /\ \A i \in 1..Len(reviews) :
           tool.ops[1].arg.s[i] =
               "{cardId: " \o StrOf(reviews[i].card_id) \o ", ease: "
               \o EaseOf(reviews[i].rating) \o "}"
    /\ \A i \in 1..Len(tool.call.sent) :
           /\ tool.call.sent[i].json.action = "answerCards"
           /\ tool.call.sent[i].json.params = {<<"answers", tool.ops[1].arg>>}

\* C29 as stated: a batch that is empty or holds a review whose card_id is
\* no integer or whose rating is none of wrong, hard, good, easy is rejected
\* as a whole, and a batch of valid reviews is submitted in one request.
C29_AllOrNothingAsWritten ==
    Submitting =>
        IF \A i \in 1..Len(tool.input.reviews) : ValidAsWritten(tool.input.reviews[i])
        THEN tool.input.reviews # <<>> => Submitted
        ELSE Rejected(ValidAsWritten)

\* C29, amended: validity is what the tool checks: the card_id is a Python
\* int (which a bool is) and the rating, put in lowercase, is one of wrong,
\* hard, good, easy.  A batch that is empty or holds a review that fails
\* this check is rejected as a whole: no client is created, no answerCards
\* request is sent, and the text lists one validation error for each failing
\* review.  A batch whose reviews all pass is submitted in exactly one
\* answerCards request with one {cardId, ease} answer for each review, in
\* input order, the ease in 1..4 given by the lowercased rating.
C29_AllOrNothing ==
    Submitting =>
        IF /\ tool.input.reviews # <<>>
           /\ \A i \in 1..Len(tool.input.reviews) : ValidAsChecked(tool.input.reviews[i])
        THEN Submitted
        ELSE Rejected(ValidAsChecked)

\* A batch of a valid review and a review with the rating great was
\* rejected: no client, no request, one validation error.
C29_Witness ==
    /\ Submitting
    /\ tool.pc = "done"
    /\ Len(tool.input.reviews) = 2
    /\ ValidAsChecked(tool.input.reviews[1])
    /\ tool.input.reviews[2].rating = "great"
    /\ tool.anki = "none"
    /\ Len(Split(tool.out.value.s)) = 2

\* The i-th operation of the tool raised, and the body of the tool has no
\* except clause around it.
RaisedUncaught(i) ==
    /\ tool.got[i].kind = "raise"
    /\ ~(tool.name = "list_decks_and_notes" /\ tool.ops[i].op = "model_field_names")

\* C30 as stated: a tool that was not cancelled has returned and not raised,
\* its client is closed, and whenever one of its operations raised, its text
\* begins with 'SYSTEM_ERROR:'.
C30_EveryFailureIsSystemError ==
    Completed =>
        /\ tool.out.kind = "return"
        /\ Acquired(tool) => tool.anki = "closed"
        /\ (\E i \in 1..Len(tool.got) : tool.got[i].kind = "raise") =>
               IsSystemError(tool.out)

\* C30, amended: the only exception a tool lets through to its caller is
\* the CancelledError of a cancelled await, which is no Exception; whenever
\* an Exception leaves the body of the tool (raised by an operation that no
\* except clause of the body encloses, or by the body itself), the tool
\* returns a text that begins with 'SYSTEM_ERROR:', and its client was
\* closed once; an exception of a model_field_names call of
\* list_decks_and_notes does not leave the body, and the text the tool then
\* returns is its listing.
C30_NoExceptionEscapes ==
    tool.pc = "done" =>
        /\ tool.out.kind \in {"return", "raise"}
        /\ tool.out.kind = "raise" => tool.out.exc.type = "CancelledError"
        /\ tool.out.kind = "return" => tool.out.value.t = "str"
        /\ tool.logged # <<>> =>
               /\ IsSystemError(tool.out)
               /\ tool.anki = "closed"
               /\ tool.closes = 1
        /\ \A i \in 1..Len(tool.got) :
               /\ (RaisedUncaught(i) /\ Completed) =>
                      /\ tool.logged = <<tool.got[i].exc>>
                      /\ IsSystemError(tool.out)
               /\ (tool.got[i].kind = "raise" /\ ~RaisedUncaught(i) /\ Completed
                   /\ tool.logged = <<>>) =>
                      /\ ~IsSystemError(tool.out)
                      /\ \/ StartsWith(tool.out.value.s, <<"You have ">>)
                         \/ StartsWith(tool.out.value.s, <<"No filtered decks found.">>)

\* find_cards returned null, the body of num_cards_due_today raised the
\* TypeError of len(None), and the tool returned a SYSTEM_ERROR text after
\* its client was closed.
C30_Witness ==
    /\ tool.pc = "done"
    /\ tool.name = "num_cards_due_today"
    /\ tool.got = <<Return(JNull)>>
    /\ Len(tool.logged) = 1
    /\ tool.logged[1].type = "TypeError"
    /\ IsSystemError(tool.out)
    /\ tool.anki = "closed"

\* The invocations in progress: started and not over.
InProgress == { i \in Invocations : tools[i].pc = "await" }

OpenClients == { k \in 1..Len(pool) : pool[k] = "open" }

\* C24: every invocation that enters its block holds a client that no other
\* invocation holds; the client of an invocation in progress is open,
\* whatever the other invocations have done, their ends and closes included;
\* the client of an invocation that is over is closed; and the open clients
\* are as many as the invocations in progress.
C24_OwnClient ==
    /\ \A i, j \in Invocations : (i # j /\ held[i] # 0 /\ held[j] # 0) => held[i] # held[j]
    /\ \A i \in Invocations :
           /\ tools[i].pc = "await" => held[i] \in OpenClients
           /\ (tools[i].pc = "done" /\ held[i] # 0) => pool[held[i]] = "closed"
           /\ tools[i].anki = "none" <=> held[i] = 0
    /\ Cardinality(OpenClients) <= Cardinality(InProgress)
    /\ Len(pool) = Cardinality({ i \in Invocations : held[i] # 0 })

\* One invocation is over and its client is closed while another, which
\* started before the first ended, is suspended in its second operation with
\* its own client open.
C24_Witness ==
    \E i, j \in Invocations :
        /\ i # j
        /\ tools[i].pc = "done"
        /\ held[i] = 2
        /\ pool[held[i]] = "closed"
        /\ tools[j].pc = "await"
        /\ held[j] = 1
        /\ Len(tools[j].ops) = 2
        /\ pool[held[j]] = "open"
\* The operations a handler of the legacy server has called so far.
OpsCalled(op) == { i \in 1..Len(tool.ops) : tool.ops[i].op = op }

GetCardsDue == tool.name = "get_cards_due" /\ tool.pc \in {"await", "done"}

\* deck_names has given get_cards_due its list.
DecksReturned == Len(tool.got) >= 1 /\ tool.got[1].kind = "return"

\* deck_names is the first operation get_cards_due calls and is called once,
\* so that every find_cards comes after it.
DeckNamesOnceAndFirst ==
    /\ OpsCalled("deck_names") = {1}
    /\ \A i \in OpsCalled("find_cards") : i > 1
    /\ OpsCalled("find_cards") # {} => DecksReturned

\* get_cards_due is over with a ValueError and has called no find_cards.
NoSuchDeck ==
    /\ tool.out.kind = "raise" /\ tool.out.exc.type = "ValueError"
    /\ tool.out.exc.msg = <<"Deck '">> \o tool.input.deck.s \o <<"' does not exist">>
    /\ OpsCalled("find_cards") = {}

\* get_cards_due is over after one find_cards, with what find_cards gave: the
\* result of the service when it returned one, its exception otherwise.
OneFindCards ==
    /\ OpsCalled("find_cards") = {2} /\ Len(tool.ops) = 2
    /\ tool.ops[2].arg = LegacyDueQuery(tool.input.deck,
                                        DaysToReview(tool.input.today_only))
    /\ tool.out = tool.got[2]
    /\ tool.out.kind = "return" => tool.out.value = tool.call.resp.body.result

\* C25, as written: get_cards_due calls deck_names once and before any
\* find_cards; when a deck name is given (any name, the empty one included)
\* that is not in the returned deck list, it raises ValueError and calls no
\* find_cards; otherwise it calls find_cards once and returns its result
\* unchanged.
C25_UnknownDeckIsValueError ==
    GetCardsDue =>
        /\ DeckNamesOnceAndFirst
        /\ tool.pc = "done" /\ DecksReturned =>
              IF /\ tool.input.deck # JNull
                 /\ ~(/\ tool.got[1].value.t = "list"
                      /\ InDecks(tool.input.deck, tool.got[1].value.s))
              THEN NoSuchDeck
              ELSE OneFindCards

\* C25: get_cards_due calls deck_names once and before any find_cards; when the
\* service answers deck_names with a list and a non-empty deck name is given
\* that is not in it, get_cards_due raises ValueError and calls no find_cards;
\* when a non-empty deck name is given and the answer is no list, it raises
\* TypeError and calls no find_cards; otherwise (no deck, the empty name, or a
\* deck of the list) it calls find_cards once and returns its result unchanged.
C25_DeckCheckedBeforeFindCards ==
    GetCardsDue =>
        /\ DeckNamesOnceAndFirst
        /\ tool.pc = "done" /\ DecksReturned =>
              IF ~Truthy(tool.input.deck) THEN OneFindCards
              ELSE IF tool.got[1].value.t # "list"
              THEN /\ tool.out.kind = "raise" /\ tool.out.exc.type = "TypeError"
                   /\ OpsCalled("find_cards") = {}
              ELSE IF ~InDecks(tool.input.deck, tool.got[1].value.s) THEN NoSuchDeck
              ELSE OneFindCards

\* get_cards_due was called with a deck that is not in the list deck_names
\* returned, and is over.
C25_Witness ==
    /\ GetCardsDue /\ tool.pc = "done" /\ DecksReturned
    /\ tool.input.deck = JStr(<<"Missing">>)
    /\ tool.got[1].value = JList(<<"Default", "AnKing">>)
    /\ tool.out.kind = "raise" /\ tool.out.exc.type = "ValueError"
    /\ tool.ops = <<[op |-> "deck_names", arg |-> JNull]>>

LegacySubmitting == tool.name = "submit_reviews" /\ tool.pc \in {"await", "done"}

\* The text has one line for each review, in the order of the reviews.
OneLinePerReview(text, reviews) ==
    \E success \in [1..Len(reviews) -> BOOLEAN] :
        text = Join([i \in 1..Len(reviews) |-> LegacyReviewLine(reviews[i], success[i])],
                    <<"\n">>)

\* C26: the legacy submit_reviews sends the reviews of an invocation that
\* validate in one answer_cards call, and never calls it twice; when the
\* service answers with a list of booleans, of any length, the reply has one
\* line for each review, in input order; when answer_cards fails, a
\* RuntimeError is raised whose message contains the message of the failure.
C26_OneCallOneLinePerReview ==
    LegacySubmitting =>
        /\ Cardinality(OpsCalled("answer_cards")) <= 1
        /\ Len(tool.ops) <= 1
        /\ (\A i \in 1..Len(tool.input.reviews) : LegacyValid(tool.input.reviews[i]))
              => /\ tool.ops = <<[op |-> "answer_cards",
                                 arg |-> JList(LegacyAnswers(tool.input.reviews))]>>
                 /\ tool.call.request.params
                       = {<<"answers", JList(LegacyAnswers(tool.input.reviews))>>}
        /\ tool.pc = "done" /\ tool.got # <<>> /\ tool.got[1].kind = "raise" =>
              /\ tool.out.kind = "raise" /\ tool.out.exc.type = "RuntimeError"
              /\ Contains(tool.out.exc.msg, tool.got[1].exc.msg)
              /\ tool.out.cause = tool.got[1].exc
        /\ tool.pc = "done" /\ tool.got # <<>> /\ tool.got[1].kind = "return"
              /\ tool.got[1].value.t = "list" =>
              /\ tool.out.kind = "return"
              /\ OneLinePerReview(tool.out.value.s, tool.input.reviews)

====
